---------------------------- MODULE Spec2Model ----------------------------
(***************************************************************************)
(* A model of the audio core of the daily podcast pipeline                 *)
(* (src/src/tts.js) and of the part of run() (src/src/index.js) that       *)
(* follows it.                                                             *)
(*                                                                         *)
(* Text is a sequence of tokens.  A token is one character, one speaker    *)
(* marker, or one run of letters:                                          *)
(*   "[HOST]", "[COHOST]"  the two markers the parser's regex recognises   *)
(*   " "                   one whitespace character                        *)
(*   ".", "!", "?"         the terminal punctuation of the chunker's regex *)
(*   "a"                   one ASCII letter (1 byte in UTF-8)              *)
(*   "E"                   one two-byte letter such as e-acute (2 bytes in *)
(*                         UTF-8, 1 UTF-16 code unit)                      *)
(*   "W"                   a run of 2250 ASCII letters (no operation of    *)
(*                         the code splits inside a run of letters)        *)
(*   "K", "J", "I"         runs of 500, 499 and 498 ASCII letters, from    *)
(*                         which sentences of k * 500 bytes are built      *)
(***************************************************************************)
EXTENDS Integers, Sequences, FiniteSets, TLC

\* ------------------------------------------------------------------ bounds

\* Longest transcript (in tokens) handed to convertToAudio.
MaxScriptLen == 5

\* Longest text (in tokens) handed to chunkScript on its own.
MaxTextLen == 5

\* Largest byte ceiling handed to chunkScript on its own.
MaxCeiling == 4

\* Largest date (a day number) an episode record carries.
MaxDate == 16

\* Most calls of addEpisodeToMemory in a row.
MaxAdds == 2

\* Longest existing feed (in tokens) handed to buildUpdatedFeed on its own.
MaxFeedLen == 4

\* Most calls of buildUpdatedFeed in a row, each on the feed of the one before.
MaxBuilds == 2

\* Most episode records in the memory handed to formatMemoryForPrompt, and the
\* largest number of days it is asked for.
MaxMemLen == 2

MaxWindow == 2

\* Longest transcript of an attempt that finds chunk files of an earlier attempt,
\* and the most chunk files it finds.
MaxRetryScriptLen == 4

MaxStale == 3

\* Most failures of reads, requests and writes met by the overlapping runs.
MaxFaults == 3

\* The stories fetchHackerNewsAI asks for (of the 30 of topStories.slice(0, 30)).
MaxStories == 2

\* The most calls made on one cost tracker, and the largest count a call is given.
MaxCalls == 3

MaxCount == 2

\* --------------------------------------------------------------- constants

\* The number of episodes the memory keeps.
MAX_EPISODES == 14

\* The ceiling convertToAudio compares a segment with and passes to chunkScript.
SegmentCeiling == 4500

\* synthesizeChunkWithRetry's default maxRetries.
MaxRetries == 2

\* The factor of the backoff: delaySec = attempt * 3.
BackoffFactor == 3

\* runWithRetry's default maxRetries.
MaxRunRetries == 2

\* The factor of runWithRetry's backoff: delaySec = attempt * 5.
RunBackoffFactor == 5

\* The letters one "W" token stands for.
RunLength == 2250

\* The letters one "K" token stands for: a ninth of the ceiling.
BlockLength == SegmentCeiling \div 9

\* Most sentences of a text of twice the ceiling handed to chunkScript.
MaxSentences == 4

Markers == {"[HOST]", "[COHOST]"}

ScriptAlphabet == {"[HOST]", "[COHOST]", "W", " ", "."}

TextAlphabet == {"a", "E", " ", ".", "!"}

\* VOICE_CONFIGS: the voice name configured for a speaker.
\* A plausible slip: the COHOST key left out of the table.
VOICE_CONFIGS_HostOnly(speaker) ==
  IF speaker = "HOST" THEN "en-US-Studio-O" ELSE "undefined"

VOICE_CONFIGS(speaker) ==
  IF speaker = "HOST" THEN "en-US-Studio-O"
  ELSE IF speaker = "COHOST" THEN "en-US-Studio-Q"
  ELSE "undefined"

\* ------------------------------------------------------------ text helpers

IsSpace(t) == t = " "

IsPunct(t) == t \in {".", "!", "?"}

\* The UTF-8 size of one token.
TokenBytes(t) ==
  CASE t = "[HOST]" -> 6
    [] t = "[COHOST]" -> 8
    [] t = "E" -> 2
    [] t = "W" -> RunLength
    [] t = "K" -> BlockLength
    [] t = "J" -> BlockLength - 1
    [] t = "I" -> BlockLength - 2
    [] OTHER -> 1

\* The UTF-16 length of one token (String.prototype.length).
TokenUnits(t) ==
  CASE t = "[HOST]" -> 6
    [] t = "[COHOST]" -> 8
    [] t = "W" -> RunLength
    [] t = "K" -> BlockLength
    [] t = "J" -> BlockLength - 1
    [] t = "I" -> BlockLength - 2
    [] OTHER -> 1

RECURSIVE SumBytes(_, _)
SumBytes(text, i) ==
  IF i > Len(text) THEN 0 ELSE TokenBytes(text[i]) + SumBytes(text, i + 1)

RECURSIVE SumUnits(_, _)
SumUnits(text, i) ==
  IF i > Len(text) THEN 0 ELSE TokenUnits(text[i]) + SumUnits(text, i + 1)

\* A plausible slip: the size taken as text.length instead of the encoded size.
ByteLengthAsLength(text) == SumUnits(text, 1)

\* Buffer.byteLength(text, 'utf8').
ByteLength(text) == SumBytes(text, 1)

RECURSIVE TrimStart(_)
TrimStart(text) ==
  IF text # <<>> /\ IsSpace(Head(text)) THEN TrimStart(Tail(text)) ELSE text

RECURSIVE TrimEnd(_)
TrimEnd(text) ==
  IF text # <<>> /\ IsSpace(text[Len(text)])
    THEN TrimEnd(SubSeq(text, 1, Len(text) - 1))
    ELSE text

\* String.prototype.trim.
Trim(text) == TrimEnd(TrimStart(text))

\* ------------------------------------------------- parseScriptBySpeaker

\* script.split(/\[(HOST|COHOST)\]/): the parts alternate text, tag, text, ...;
\* a text part is a token sequence (possibly empty), a tag part is the one-element
\* sequence holding the captured speaker name.
RECURSIVE SplitFrom(_, _, _)
SplitFrom(script, i, current) ==
  IF i > Len(script) THEN <<current>>
  ELSE IF script[i] \in Markers
    THEN <<current, <<IF script[i] = "[HOST]" THEN "HOST" ELSE "COHOST">> >>
           \o SplitFrom(script, i + 1, <<>>)
    ELSE SplitFrom(script, i + 1, Append(current, script[i]))

SplitOnMarkers(script) == SplitFrom(script, 1, <<>>)

\* The loop of parseScriptBySpeaker; parts is 1-based here, so the tags sit at the
\* even positions and the code's i = 1, 3, 5, ... is 2, 4, 6, ...
RECURSIVE ParseLoop(_, _, _)
ParseLoop(parts, i, segs) ==
  IF i > Len(parts) THEN segs
  ELSE LET speaker == parts[i][1]
           text == Trim(IF i + 1 <= Len(parts) THEN parts[i + 1] ELSE <<>>)
       IN ParseLoop(parts, i + 2,
                    IF text # <<>>
                      THEN Append(segs, [speaker |-> speaker, text |-> text])
                      ELSE segs)

\* A plausible slip: the emptiness test on the trimmed text left out.
RECURSIVE ParseLoopKeepEmpty(_, _, _)
ParseLoopKeepEmpty(parts, i, segs) ==
  IF i > Len(parts) THEN segs
  ELSE LET speaker == parts[i][1]
           text == Trim(IF i + 1 <= Len(parts) THEN parts[i + 1] ELSE <<>>)
       IN ParseLoopKeepEmpty(parts, i + 2,
                    Append(segs, [speaker |-> speaker, text |-> text]))

parseScriptBySpeakerKeepEmpty(script) ==
  ParseLoopKeepEmpty(SplitOnMarkers(script), 2, <<>>)

parseScriptBySpeaker(script) == ParseLoop(SplitOnMarkers(script), 2, <<>>)

\* ------------------------------------------------------------ chunkScript

\* The last position of the maximal run of non-punctuation starting at pos.
RECURSIVE NonPunctEnd(_, _)
NonPunctEnd(text, pos) ==
  IF pos + 1 <= Len(text) /\ ~IsPunct(text[pos + 1])
    THEN NonPunctEnd(text, pos + 1) ELSE pos

\* The last position of the maximal run of punctuation starting at pos.
RECURSIVE PunctEnd(_, _)
PunctEnd(text, pos) ==
  IF pos + 1 <= Len(text) /\ IsPunct(text[pos + 1])
    THEN PunctEnd(text, pos + 1) ELSE pos

\* script.match(/[^.!?]+[.!?]+/g), the matches from position pos on: a match
\* cannot start on punctuation, takes the maximal run of non-punctuation and needs
\* punctuation right after it; text the regex does not match is skipped.
RECURSIVE MatchFrom(_, _)
MatchFrom(text, pos) ==
  IF pos > Len(text) THEN <<>>
  ELSE IF IsPunct(text[pos]) THEN MatchFrom(text, pos + 1)
  ELSE LET e == NonPunctEnd(text, pos)
       IN IF e = Len(text) THEN <<>>
          ELSE LET q == PunctEnd(text, e + 1)
               IN <<SubSeq(text, pos, q)>> \o MatchFrom(text, q + 1)

\* const sentences = script.match(...) || [script]
Sentences(script) ==
  LET m == MatchFrom(script, 1) IN IF m = <<>> THEN <<script>> ELSE m

\* The body of chunkScript's for loop and the push after it.
RECURSIVE ChunkLoop(_, _, _, _, _)
ChunkLoop(sentences, i, chunks, currentChunk, maxBytes) ==
  IF i > Len(sentences)
    THEN IF Trim(currentChunk) # <<>>
           THEN Append(chunks, Trim(currentChunk)) ELSE chunks
  ELSE LET sentence == sentences[i]
           testChunk == currentChunk \o sentence
       IN IF ByteLength(testChunk) > maxBytes
            THEN IF currentChunk # <<>>
                   THEN ChunkLoop(sentences, i + 1,
                                  Append(chunks, Trim(currentChunk)), sentence, maxBytes)
                   ELSE ChunkLoop(sentences, i + 1,
                                  Append(chunks, Trim(sentence)), <<>>, maxBytes)
            ELSE ChunkLoop(sentences, i + 1, chunks, testChunk, maxBytes)

\* A plausible slip: the chunk measured in characters (text.length), not in bytes.
RECURSIVE ChunkLoopByLength(_, _, _, _, _)
ChunkLoopByLength(sentences, i, chunks, currentChunk, maxBytes) ==
  IF i > Len(sentences)
    THEN IF Trim(currentChunk) # <<>>
           THEN Append(chunks, Trim(currentChunk)) ELSE chunks
  ELSE LET sentence == sentences[i]
           testChunk == currentChunk \o sentence
       IN IF ByteLengthAsLength(testChunk) > maxBytes
            THEN IF currentChunk # <<>>
                   THEN ChunkLoopByLength(sentences, i + 1,
                                  Append(chunks, Trim(currentChunk)), sentence, maxBytes)
                   ELSE ChunkLoopByLength(sentences, i + 1,
                                  Append(chunks, Trim(sentence)), <<>>, maxBytes)
            ELSE ChunkLoopByLength(sentences, i + 1, chunks, testChunk, maxBytes)

chunkScriptByLength(script, maxBytes) ==
  ChunkLoopByLength(Sentences(script), 1, <<>>, <<>>, maxBytes)

\* A plausible slip: the sentence that overflows the chunk closed with it
\* (testChunk pushed, not currentChunk).
RECURSIVE ChunkLoopMerging(_, _, _, _, _)
ChunkLoopMerging(sentences, i, chunks, currentChunk, maxBytes) ==
  IF i > Len(sentences)
    THEN IF Trim(currentChunk) # <<>>
           THEN Append(chunks, Trim(currentChunk)) ELSE chunks
  ELSE LET sentence == sentences[i]
           testChunk == currentChunk \o sentence
       IN IF ByteLength(testChunk) > maxBytes
            THEN IF currentChunk # <<>>
                   THEN ChunkLoopMerging(sentences, i + 1,
                                  Append(chunks, Trim(testChunk)), <<>>, maxBytes)
                   ELSE ChunkLoopMerging(sentences, i + 1,
                                  Append(chunks, Trim(sentence)), <<>>, maxBytes)
            ELSE ChunkLoopMerging(sentences, i + 1, chunks, testChunk, maxBytes)

chunkScriptMerging(script, maxBytes) ==
  ChunkLoopMerging(Sentences(script), 1, <<>>, <<>>, maxBytes)

chunkScript(script, maxBytes) == ChunkLoop(Sentences(script), 1, <<>>, <<>>, maxBytes)

\* ------------------------------------------------------- number arithmetic

\* A natural number of any size is a numeral to the base 2^15, least significant
\* digit first and without leading zeros, so that every step stays within
\* 32-bit integers.
Base == 2 ^ 15

\* A JavaScript number that is not negative: zero, or m * 2^e with m a natural
\* number of exactly 53 binary digits, as IEEE 754 binary64 holds it.  Sums and
\* products are rounded to nearest, ties to even, as the + and * of the language
\* round them.
Zero == [m |-> <<>>, e |-> 0]

RECURSIVE BigOfNat(_)
BigOfNat(n) == IF n = 0 THEN <<>> ELSE <<n % Base>> \o BigOfNat(n \div Base)

\* A numeral without its leading zeros.
RECURSIVE BigNorm(_)
BigNorm(a) ==
  IF a # <<>> /\ a[Len(a)] = 0 THEN BigNorm(SubSeq(a, 1, Len(a) - 1)) ELSE a

DigitAt(a, i) == IF i <= Len(a) THEN a[i] ELSE 0

\* a + b, from digit i on, with a carry.
RECURSIVE BigAddFrom(_, _, _, _)
BigAddFrom(a, b, i, carry) ==
  IF i > Len(a) /\ i > Len(b)
    THEN IF carry = 0 THEN <<>> ELSE <<carry>>
    ELSE LET sum == DigitAt(a, i) + DigitAt(b, i) + carry
         IN <<sum % Base>> \o BigAddFrom(a, b, i + 1, sum \div Base)

BigAdd(a, b) == BigAddFrom(a, b, 1, 0)

\* a - b for a >= b, from digit i on, with a borrow.
RECURSIVE BigSubFrom(_, _, _, _)
BigSubFrom(a, b, i, borrow) ==
  IF i > Len(a) THEN <<>>
  ELSE LET diff == DigitAt(a, i) - DigitAt(b, i) - borrow
       IN <<(diff + Base) % Base>> \o BigSubFrom(a, b, i + 1, IF diff < 0 THEN 1 ELSE 0)

BigSub(a, b) == BigNorm(BigSubFrom(a, b, 1, 0))

\* a <= b, decided from digit i down.
RECURSIVE BigLeqFrom(_, _, _)
BigLeqFrom(a, b, i) ==
  IF i = 0 THEN TRUE
  ELSE IF DigitAt(a, i) # DigitAt(b, i) THEN DigitAt(a, i) < DigitAt(b, i)
  ELSE BigLeqFrom(a, b, i - 1)

BigLeq(a, b) == BigLeqFrom(a, b, IF Len(a) >= Len(b) THEN Len(a) ELSE Len(b))

\* a * d for a single digit d, from digit i on, with a carry.
RECURSIVE BigTimesDigitFrom(_, _, _, _)
BigTimesDigitFrom(a, d, i, carry) ==
  IF i > Len(a)
    THEN IF carry = 0 THEN <<>> ELSE <<carry>>
    ELSE LET prod == a[i] * d + carry
         IN <<prod % Base>> \o BigTimesDigitFrom(a, d, i + 1, prod \div Base)

\* a * b: the shifted products of a with the digits of b from digit i on.
RECURSIVE BigMulFrom(_, _, _)
BigMulFrom(a, b, i) ==
  IF i > Len(b) THEN <<>>
  ELSE BigAdd([j \in 1..(i - 1) |-> 0] \o BigTimesDigitFrom(a, b[i], 1, 0),
              BigMulFrom(a, b, i + 1))

BigMul(a, b) == BigNorm(BigMulFrom(a, b, 1))

\* a * 2^k.
BigShl(a, k) ==
  [j \in 1..(k \div 15) |-> 0] \o BigTimesDigitFrom(a, 2 ^ (k % 15), 1, 0)

\* a \div 2^k.
BigShr(a, k) ==
  LET q == k \div 15
      r == k % 15
  IN BigNorm([i \in 1..(Len(a) - q) |->
                (DigitAt(a, i + q) \div (2 ^ r))
                  + (DigitAt(a, i + q + 1) % (2 ^ r)) * (2 ^ (15 - r))])

\* a % 2^k = 0.
BigLowZero(a, k) ==
  /\ \A i \in 1..(k \div 15) : DigitAt(a, i) = 0
  /\ DigitAt(a, (k \div 15) + 1) % (2 ^ (k % 15)) = 0

\* The binary digit of a that counts 2^j.
BigBit(a, j) == (DigitAt(a, (j \div 15) + 1) \div (2 ^ (j % 15))) % 2

\* The number of binary digits of a, a without leading zeros.
BigBitLen(a) ==
  IF a = <<>> THEN 0
  ELSE 15 * (Len(a) - 1) + CHOOSE k \in 1..15 : a[Len(a)] \div (2 ^ (k - 1)) = 1

\* The number nearest to a * 2^e that has 53 binary digits, ties to even.
RoundToDouble(a, e) ==
  LET all == BigNorm(a)
      k == BigBitLen(all) - 53
  IN IF all = <<>> THEN Zero
     ELSE IF k <= 0 THEN [m |-> BigShl(all, 0 - k), e |-> e + k]
     ELSE LET kept == BigShr(all, k)
              up == /\ BigBit(all, k - 1) = 1
                    /\ (~BigLowZero(all, k - 1) \/ BigBit(kept, 0) = 1)
              r == IF up THEN BigAdd(kept, <<1>>) ELSE kept
          IN IF BigBitLen(r) = 54
               THEN [m |-> BigShr(r, 1), e |-> e + k + 1]
               ELSE [m |-> r, e |-> e + k]

\* x + y.
FAdd(x, y) ==
  IF x.m = <<>> THEN y
  ELSE IF y.m = <<>> THEN x
  ELSE LET lo == IF x.e <= y.e THEN x.e ELSE y.e
       IN RoundToDouble(BigAdd(BigShl(x.m, x.e - lo), BigShl(y.m, y.e - lo)), lo)

\* n * x for a count n.
FMulNat(n, x) == RoundToDouble(BigMul(x.m, BigOfNat(n)), x.e)

\* Long division by a natural number b of the binary digits of a that count
\* 2^hi down to 2^lo, rem being left of the digits above: the quotient and what
\* is left; the upper half of the digits, then the lower half.
RECURSIVE DivRange(_, _, _, _, _)
DivRange(a, hi, lo, rem, b) ==
  IF hi < lo THEN [quot |-> <<>>, rem |-> rem]
  ELSE IF hi = lo
    THEN LET r == 2 * rem + BigBit(a, hi)
         IN IF r >= b THEN [quot |-> <<1>>, rem |-> r - b]
                      ELSE [quot |-> <<>>, rem |-> r]
  ELSE LET mid == (lo + hi) \div 2
           upper == DivRange(a, hi, mid + 1, rem, b)
           lower == DivRange(a, mid, lo, upper.rem, b)
       IN [quot |-> BigAdd(BigShl(upper.quot, mid - lo + 1), lower.quot),
           rem |-> lower.rem]

\* a / b for two natural numbers (and the value of a decimal literal a / b): the
\* quotient to 80 binary digits after the point, a further digit 1 when
\* something is left, rounded.
FDivNat(a, b) ==
  LET num == BigShl(BigOfNat(a), 80)
      d == DivRange(num, BigBitLen(num) - 1, 0, 0, b)
  IN RoundToDouble(BigAdd(BigShl(d.quot, 1), IF d.rem = 0 THEN <<>> ELSE <<1>>), 0 - 81)

\* A number as a multiple of 2^lo.
Aligned(x, lo) == IF x.m = <<>> THEN <<>> ELSE BigShl(x.m, x.e - lo)

\* x and y differ by at most n * 2^-51 of x: what n additions, each rounded to
\* 53 binary digits, can lose on either side.
CloseTo(x, y, n) ==
  LET lo == IF x.m = <<>> THEN y.e
            ELSE IF y.m = <<>> THEN x.e
            ELSE IF x.e <= y.e THEN x.e ELSE y.e
      a == Aligned(x, lo)
      b == Aligned(y, lo)
      diff == IF BigLeq(a, b) THEN BigSub(b, a) ELSE BigSub(a, b)
  IN BigLeq(BigShl(diff, 51), BigMul(a, BigOfNat(n)))

\* -------------------------------------------------------------- CostTracker

\* RATES: dollars per token, per character, per call.
RATES ==
  [claude |-> [input |-> FDivNat(3, 1000000), output |-> FDivNat(15, 1000000)],
   tts |-> [standard |-> FDivNat(4, 1000000), wavenet |-> FDivNat(16, 1000000)],
   twitter |-> [perCall |-> FDivNat(15, 100000)]]

\* A tracker is its costs and its usage.
NewCostTracker ==
  [costs |-> [claude |-> Zero, tts |-> Zero, twitter |-> Zero, total |-> Zero],
   usage |-> [claudeInputTokens |-> 0, claudeOutputTokens |-> 0,
              ttsCharacters |-> 0, twitterCalls |-> 0]]

\* trackClaude: the tracker after the call, and what the call returns.
trackClaude(t, inputTokens, outputTokens) ==
  LET inputCost == FMulNat(inputTokens, RATES.claude.input)
      outputCost == FMulNat(outputTokens, RATES.claude.output)
      totalCost == FAdd(inputCost, outputCost)
  IN [costs |-> [t.costs EXCEPT !.claude = FAdd(@, totalCost),
                                !.total = FAdd(@, totalCost)],
      usage |-> [t.usage EXCEPT !.claudeInputTokens = @ + inputTokens,
                                !.claudeOutputTokens = @ + outputTokens],
      cost |-> totalCost]

\* trackTTS without its addition to costs.total.
trackTTSOwnCostOnly(t, characters, voiceType) ==
  LET cost == FMulNat(characters, RATES.tts[voiceType])
  IN [costs |-> [t.costs EXCEPT !.tts = FAdd(@, cost)],
      usage |-> [t.usage EXCEPT !.ttsCharacters = @ + characters],
      cost |-> cost]

trackTTS(t, characters, voiceType) ==
  LET cost == FMulNat(characters, RATES.tts[voiceType])
  IN [costs |-> [t.costs EXCEPT !.tts = FAdd(@, cost), !.total = FAdd(@, cost)],
      usage |-> [t.usage EXCEPT !.ttsCharacters = @ + characters],
      cost |-> cost]

trackTwitter(t, apiCalls) ==
  LET cost == FMulNat(apiCalls, RATES.twitter.perCall)
  IN [costs |-> [t.costs EXCEPT !.twitter = FAdd(@, cost), !.total = FAdd(@, cost)],
      usage |-> [t.usage EXCEPT !.twitterCalls = @ + apiCalls],
      cost |-> cost]

\* ------------------------------------------------------------------ state

VARIABLES
  script,        \* the transcript handed to convertToAudio
  pc,            \* where convertToAudio stands
  segments,      \* parseScriptBySpeaker's result
  totalChars,    \* Buffer.byteLength(script, 'utf8')
  s,             \* the outer loop's segment index (1-based)
  textChunks,    \* the chunks of segment s
  c,             \* the inner loop's position in textChunks (1-based)
  chunkFiles,    \* the chunk indices whose files were written, in push order
  chunkIndex,    \* the running chunk index
  attempt,       \* synthesizeChunkWithRetry's attempt
  calls,         \* every synthesizeSpeech request issued, in issue order
  error,         \* the kind of the error caught or thrown: "none", "transient", "fatal"
  tmpDirExists,  \* whether /tmp/tts-chunks exists
  tmpFiles,      \* the chunk files of /tmp/tts-chunks, by chunk index
  outFile,       \* the file at outputPath
  assembled,     \* which assembly ran: "none", "rename" or "combine"
  returned,      \* what convertToAudio returned
  stage,         \* where run() stands
  reached,       \* the steps of run() after the audio step that were entered
  trackedChars,  \* the characters given to costTracker.trackTTS
  usageChars,    \* the characters given to updateTTSUsage
  text,          \* chunkScript on its own: its text
  maxBytes,      \* chunkScript on its own: its ceiling
  chunks,        \* chunkScript on its own: its result, once applied
  runPc,         \* where runWithRetry stands
  runAttempt,    \* runWithRetry's attempt
  runLog,        \* every call of run() made by runWithRetry, in call order
  exitStatus,    \* the status process.exit was called with, -1 before
  memory,        \* the episode memory ({ episodes: [...] })
  memoryBefore,  \* the memory handed to the last call of addEpisodeToMemory
  lastRecord,    \* the record handed to the last call of addEpisodeToMemory
  adds,          \* the number of calls of addEpisodeToMemory made
  fetchPc,       \* where run() stands with its content fetch
  token,         \* whether TWITTER_BEARER_TOKEN is set
  settled,       \* what the source functions resolved or rejected with, in order
  tw,            \* the locals of fetchDatabricksExecTweets
  hn,            \* the locals of fetchHackerNewsAI
  bundle,        \* the content bundle handed to synthesizeScript
  tracker,       \* a CostTracker: its costs and its usage
  trackerBefore, \* the tracker before its last call
  lastReturn,    \* the service of the tracker's last call and the cost it returned
  ledger,        \* the calls made on the tracker, the costs they returned summed
                 \* per service in call order, and their arguments summed
  existingFeedXml, \* buildUpdatedFeed on its own: the feed handed to it
  episode,       \* buildUpdatedFeed on its own: the episode handed to it
  updatedFeed,   \* buildUpdatedFeed on its own: what the call gave, once made
  builds,        \* the calls of buildUpdatedFeed whose result became the feed
  promptMemory,  \* formatMemoryForPrompt: the memory handed to it
  days,          \* formatMemoryForPrompt: the days handed to it
  now,           \* the instant new Date() gives, in hours
  zone,          \* the offset of the process's time zone from UTC, in hours
  prompt,        \* formatMemoryForPrompt: what it returned, once called
  repo,          \* the gh-pages branch: feed.xml and the files of episodes/
  feed0,         \* feed.xml as it was before the runs
  proc,          \* per pipeline run: where it stands and its locals
  faults         \* the failures met so far

audioVars == <<script, pc, segments, totalChars, s, textChunks, c, chunkFiles,
               chunkIndex, attempt, calls, error, tmpDirExists, tmpFiles, outFile,
               assembled, returned>>

runVars == <<stage, reached, trackedChars, usageChars>>

chunkVars == <<text, maxBytes, chunks>>

retryVars == <<runPc, runAttempt, runLog, exitStatus>>

\* The variables of the parts of the pipeline around the audio core.
memoryVars == <<memory, memoryBefore, lastRecord, adds>>

fetchVars == <<fetchPc, token, settled, tw, hn, bundle>>

costVars == <<tracker, trackerBefore, lastReturn, ledger>>

feedVars == <<existingFeedXml, episode, updatedFeed, builds>>

formatVars == <<promptMemory, days, now, zone, prompt>>

publishVars == <<repo, feed0, proc, faults>>

\* The variables of the publishing side of the pipeline.
lateVars == <<feedVars, formatVars, publishVars>>

restVars == <<retryVars, memoryVars, fetchVars, costVars, lateVars>>

vars == <<audioVars, runVars, chunkVars, restVars>>

\* All token sequences over alphabet of length at most n.
SeqsUpTo(alphabet, n) == UNION {[1..k -> alphabet] : k \in 0..n}

\* A file that does not exist, and a file holding fragments.
Absent == [exists |-> FALSE, data |-> <<>>]

File(data) == [exists |-> TRUE, data |-> data]

\* The audio the synthesis capability returns for a request: it is determined by
\* the request's voice and text.
Fragment(voice, txt) == [voice |-> voice, text |-> txt]

\* The chunk indices a file name can carry in the model.
FileIndices == 0..MaxScriptLen

NoFiles == [i \in FileIndices |-> Absent]

\* The unset value of the chunkScript-alone result.
NotApplied == <<<<"not applied">>>>

\* runWithRetry not called.
RetryIdle ==
  /\ runPc = "idle"
  /\ runAttempt = 0
  /\ runLog = <<>>
  /\ exitStatus = -1

\* An episode record: its date and what else it holds (summary, keyTopics).
Episode(date, summary) == [date |-> date, summary |-> summary]

\* No memory loaded.
MemoryIdle ==
  /\ memory = [episodes |-> <<>>]
  /\ memoryBefore = [episodes |-> <<>>]
  /\ lastRecord = Episode(0, 0)
  /\ adds = 0

\* No content fetch under way.
FetchIdle ==
  /\ fetchPc = "idle"
  /\ token = FALSE
  /\ settled = <<>>
  /\ tw = [user |-> 1, step |-> "lookup", items |-> <<>>, apiCalls |-> 0,
           failedUsers |-> {}]
  /\ hn = [top |-> "pending", stories |-> <<>>]
  /\ bundle = [databricks |-> <<>>, aiNews |-> <<>>, twitterApiCalls |-> 0]

\* Nothing tracked: the tracker as its constructor leaves it.
NoLedger ==
  [calls |-> 0,
   returned |-> [claude |-> Zero, tts |-> Zero, twitter |-> Zero],
   args |-> [claudeInputTokens |-> 0, claudeOutputTokens |-> 0,
             ttsCharacters |-> 0, twitterCalls |-> 0]]

CostIdle ==
  /\ tracker = NewCostTracker
  /\ trackerBefore = NewCostTracker
  /\ lastReturn = [service |-> "none", cost |-> Zero]
  /\ ledger = NoLedger

\* What a call of buildUpdatedFeed gives: the feed it returns or the message of
\* the error it throws.
FeedReturned(feed) == [threw |-> FALSE, message |-> "", feed |-> feed]

FeedThrown(message) == [threw |-> TRUE, message |-> message, feed |-> <<>>]

\* buildUpdatedFeed not called.
NotBuilt == [threw |-> FALSE, message |-> "not called", feed |-> <<>>]

FeedIdle ==
  /\ existingFeedXml = <<>>
  /\ episode = [fileName |-> "", description |-> <<>>]
  /\ updatedFeed = NotBuilt
  /\ builds = 0

\* The unset value of formatMemoryForPrompt's result.
NotFormatted == <<"not called">>

FormatIdle ==
  /\ promptMemory = [episodes |-> <<>>]
  /\ days = 0
  /\ now = 0
  /\ zone = 0
  /\ prompt = NotFormatted

\* No pipeline run under way on an empty branch.
PublishIdle ==
  /\ repo = [feed |-> [exists |-> FALSE, sha |-> 0, content |-> <<>>], mp3 |-> <<>>]
  /\ feed0 = <<>>
  /\ proc = <<>>
  /\ faults = 0

\* The publishing side of the pipeline not running.
LateIdle == FeedIdle /\ FormatIdle /\ PublishIdle

\* The parts of the pipeline around the audio core not running.
RestIdle == RetryIdle /\ MemoryIdle /\ FetchIdle /\ CostIdle /\ LateIdle

\* convertToAudio, run() and chunkScript not called.
CoreIdle ==
  /\ script = <<>>
  /\ pc = "idle"
  /\ segments = <<>>
  /\ totalChars = 0
  /\ s = 1
  /\ textChunks = <<>>
  /\ c = 1
  /\ chunkFiles = <<>>
  /\ chunkIndex = 0
  /\ attempt = 1
  /\ calls = <<>>
  /\ error = "none"
  /\ tmpDirExists = FALSE
  /\ tmpFiles = NoFiles
  /\ outFile = Absent
  /\ assembled = "none"
  /\ returned = [set |-> FALSE, characters |-> 0]
  /\ stage = "idle"
  /\ reached = {}
  /\ trackedChars = 0
  /\ usageChars = 0
  /\ text = <<>>
  /\ maxBytes = 0
  /\ chunks = NotApplied

\* -------------------------------------------------------- convertToAudio

\* A plausible slip: every turn handed to chunkScript, whatever its size.
TextChunksAlwaysSplit(segText) == chunkScript(segText, SegmentCeiling)

\* const textChunks = segmentBytes > 4500 ? chunkScript(text, 4500) : [text]
TextChunksOf(segText) ==
  IF ByteLength(segText) > SegmentCeiling
    THEN chunkScript(segText, SegmentCeiling)
    ELSE <<segText>>

\* Buffer.concat(files.map(file => fs.readFileSync(file)))
RECURSIVE ConcatFiles(_, _, _)
ConcatFiles(files, dir, i) ==
  IF i > Len(files) THEN <<>>
  ELSE dir[files[i]].data \o ConcatFiles(files, dir, i + 1)

\* A plausible slip: the fragments concatenated last to first.
RECURSIVE ConcatFilesReversed(_, _, _)
ConcatFilesReversed(files, dir, i) ==
  IF i > Len(files) THEN <<>>
  ELSE ConcatFilesReversed(files, dir, i + 1) \o dir[files[i]].data

combineMP3FilesReversed(files, dir) ==
  [out |-> File(ConcatFilesReversed(files, dir, 1)),
   dir |-> [i \in FileIndices |->
              IF \E k \in 1..Len(files) : files[k] = i THEN Absent ELSE dir[i]]]

\* A plausible slip: every file of the temporary directory concatenated
\* (readdirSync) instead of the files of the list.
combineMP3FilesWholeDir(files, dir) ==
  LET all == SelectSeq([k \in 1..(MaxScriptLen + 1) |-> k - 1],
                       LAMBDA i : i \in FileIndices /\ dir[i].exists)
  IN [out |-> File(ConcatFiles(all, dir, 1)),
      dir |-> [i \in FileIndices |-> Absent]]

\* combineMP3Files(files, outputPath): the output file it writes and the
\* directory after its unlinks.
combineMP3Files(files, dir) ==
  [out |-> File(ConcatFiles(files, dir, 1)),
   dir |-> [i \in FileIndices |->
              IF \E k \in 1..Len(files) : files[k] = i THEN Absent ELSE dir[i]]]

\* The first segment at or after position i that has a chunk to synthesize
\* (every segment has one: the outer loop's head passes over a segment whose inner
\* loop has nothing to do); Len(segs) + 1 when there is none.
RECURSIVE NextSegment(_, _)
NextSegment(segs, i) ==
  IF i > Len(segs) \/ TextChunksOf(segs[i].text) # <<>>
    THEN i
    ELSE NextSegment(segs, i + 1)

\* synthesizeChunk(client, text, voiceConfig): the request sent, as the log keeps it.
Request(idx, voice, txt, att) ==
  [idx |-> idx, voice |-> voice, text |-> txt, attempt |-> att,
   delaySec |-> 0, result |-> "pending"]

\* A plausible slip: the requests for all the chunks of a turn sent at once
\* (Promise.all over textChunks) instead of one awaited after the other.
LoopsFanOut(segs, s1, files, dir, index, log, total) ==
  LET n == NextSegment(segs, s1)
  IN /\ s' = n
     /\ calls' = IF n <= Len(segs)
                   THEN log \o [k \in 1..Len(TextChunksOf(segs[n].text)) |->
                                  Request(index + k - 1, VOICE_CONFIGS(segs[n].speaker),
                                          TextChunksOf(segs[n].text)[k], 1)]
                   ELSE log
     /\ IF n <= Len(segs)
          THEN /\ textChunks' = TextChunksOf(segs[n].text)
               /\ pc' = "await"
               /\ tmpFiles' = dir
               /\ tmpDirExists' = TRUE
               /\ UNCHANGED <<outFile, assembled, returned>>
          ELSE /\ textChunks' = <<>>
               /\ IF Len(files) = 1
                    THEN /\ outFile' = dir[files[1]]
                         /\ tmpFiles' = [dir EXCEPT ![files[1]] = Absent]
                         /\ assembled' = "rename"
                    ELSE /\ outFile' = combineMP3Files(files, dir).out
                         /\ tmpFiles' = combineMP3Files(files, dir).dir
                         /\ assembled' = "combine"
               /\ tmpDirExists' = (\E i \in FileIndices : tmpFiles'[i].exists)
               /\ returned' = [set |-> TRUE, characters |-> total]
               /\ pc' = "returned"
     /\ c' = 1
     /\ attempt' = 1

\* convertToAudio from the head of its outer loop at segment s1 to its next await:
\* either the request for the first chunk of the next segment, or, after the last
\* segment, the rename or the combine, the rmdir (which fails, and is caught, when
\* the directory still holds a file) and the return.
Loops(segs, s1, files, dir, index, log, total) ==
  LET n == NextSegment(segs, s1)
  IN /\ s' = n
     /\ calls' = IF n <= Len(segs)
                   THEN Append(log, Request(index, VOICE_CONFIGS(segs[n].speaker),
                                            TextChunksOf(segs[n].text)[1], 1))
                   ELSE log
     /\ IF n <= Len(segs)
          THEN /\ textChunks' = TextChunksOf(segs[n].text)
               /\ pc' = "await"
               /\ tmpFiles' = dir
               /\ tmpDirExists' = TRUE
               /\ UNCHANGED <<outFile, assembled, returned>>
          ELSE /\ textChunks' = <<>>
               /\ IF Len(files) = 1
                    THEN /\ outFile' = dir[files[1]]
                         /\ tmpFiles' = [dir EXCEPT ![files[1]] = Absent]
                         /\ assembled' = "rename"
                    ELSE /\ outFile' = combineMP3Files(files, dir).out
                         /\ tmpFiles' = combineMP3Files(files, dir).dir
                         /\ assembled' = "combine"
               /\ tmpDirExists' = (\E i \in FileIndices : tmpFiles'[i].exists)
               /\ returned' = [set |-> TRUE, characters |-> total]
               /\ pc' = "returned"
     /\ c' = 1
     /\ attempt' = 1

\* convertToAudio from its call to its first await: the client, the parse, the
\* size, the directory, and the loops.
Begin ==
  /\ pc = "start"
  /\ segments' = parseScriptBySpeaker(script)
  /\ totalChars' = ByteLength(script)
  /\ chunkFiles' = <<>>
  /\ chunkIndex' = 0
  /\ Loops(parseScriptBySpeaker(script), 1, <<>>, tmpFiles, 0, calls,
           ByteLength(script))
  /\ UNCHANGED <<script, error>>
  /\ UNCHANGED <<runVars, chunkVars, restVars>>

\* The request in flight resolves: the chunk file is written and pushed, and the
\* loops go on to the next request or to the return.
CallSucceeds ==
  /\ pc = "await"
  /\ LET voice == VOICE_CONFIGS(segments[s].speaker)
         log == [calls EXCEPT ![Len(calls)].result = "ok"]
         dir == [tmpFiles EXCEPT
                   ![chunkIndex] = File(<<Fragment(voice, textChunks[c])>>)]
         files == Append(chunkFiles, chunkIndex)
     IN /\ chunkFiles' = files
        /\ chunkIndex' = chunkIndex + 1
        /\ IF c < Len(textChunks)
             THEN /\ c' = c + 1
                  /\ attempt' = 1
                  /\ calls' = Append(log, Request(chunkIndex + 1, voice,
                                                  textChunks[c + 1], 1))
                  /\ tmpFiles' = dir
                  /\ UNCHANGED <<pc, s, textChunks, tmpDirExists, outFile, assembled,
                                 returned>>
             ELSE Loops(segments, s + 1, files, dir, chunkIndex + 1, log, totalChars)
  /\ UNCHANGED <<script, segments, totalChars, error>>
  /\ UNCHANGED <<runVars, chunkVars, restVars>>

\* A plausible slip: the error of the last attempt swallowed, the loops moving on
\* to the next chunk without a file for this one.
CallFailsSwallowed(kind) ==
  /\ pc = "await"
  /\ error' = kind
  /\ IF attempt <= MaxRetries
       THEN /\ calls' = [calls EXCEPT ![Len(calls)].result = "failed",
                                      ![Len(calls)].delaySec = attempt * BackoffFactor]
            /\ pc' = "backoff"
            /\ UNCHANGED <<s, textChunks, c, chunkIndex, attempt, tmpDirExists,
                           tmpFiles, outFile, assembled, returned>>
       ELSE /\ chunkIndex' = chunkIndex + 1
            /\ Loops(segments, s + 1, chunkFiles, tmpFiles, chunkIndex + 1,
                     [calls EXCEPT ![Len(calls)].result = "failed"], totalChars)
  /\ UNCHANGED <<script, segments, totalChars, chunkFiles>>
  /\ UNCHANGED <<runVars, chunkVars, restVars>>

\* A plausible slip: the retry test off by one (attempt < maxRetries).
CallFailsOffByOne(kind) ==
  /\ pc = "await"
  /\ error' = kind
  /\ IF attempt < MaxRetries
       THEN /\ calls' = [calls EXCEPT ![Len(calls)].result = "failed",
                                      ![Len(calls)].delaySec = attempt * BackoffFactor]
            /\ pc' = "backoff"
            /\ UNCHANGED stage
       ELSE /\ calls' = [calls EXCEPT ![Len(calls)].result = "failed"]
            /\ pc' = "thrown"
            /\ stage' = "failed"
  /\ UNCHANGED <<script, segments, totalChars, s, textChunks, c, chunkFiles,
                 chunkIndex, attempt, tmpDirExists, tmpFiles, outFile, assembled,
                 returned>>
  /\ UNCHANGED <<reached, trackedChars, usageChars, chunkVars, restVars>>

\* The request in flight is rejected with an error of the given kind ("transient"
\* or "fatal"): the catch of synthesizeChunkWithRetry starts the backoff while
\* attempt <= maxRetries and rethrows otherwise; the rethrown error passes through
\* the catch of convertToAudio and the catch of run().
CallFails(kind) ==
  /\ pc = "await"
  /\ error' = kind
  /\ IF attempt <= MaxRetries
       THEN /\ calls' = [calls EXCEPT ![Len(calls)].result = "failed",
                                      ![Len(calls)].delaySec = attempt * BackoffFactor]
            /\ pc' = "backoff"
            /\ UNCHANGED stage
       ELSE /\ calls' = [calls EXCEPT ![Len(calls)].result = "failed"]
            /\ pc' = "thrown"
            /\ stage' = "failed"
  /\ UNCHANGED <<script, segments, totalChars, s, textChunks, c, chunkFiles,
                 chunkIndex, attempt, tmpDirExists, tmpFiles, outFile, assembled,
                 returned>>
  /\ UNCHANGED <<reached, trackedChars, usageChars, chunkVars, restVars>>

\* The backoff timer fires: the for loop of synthesizeChunkWithRetry goes round
\* and sends the request again.
BackoffElapses ==
  /\ pc = "backoff"
  /\ attempt' = attempt + 1
  /\ error' = "none"
  /\ calls' = Append(calls, Request(chunkIndex, VOICE_CONFIGS(segments[s].speaker),
                                    textChunks[c], attempt + 1))
  /\ pc' = "await"
  /\ UNCHANGED <<script, segments, totalChars, s, textChunks, c, chunkFiles,
                 chunkIndex, tmpDirExists, tmpFiles, outFile, assembled, returned>>
  /\ UNCHANGED <<runVars, chunkVars, restVars>>

\* ------------------------------------------------------------------ run()

\* run() after convertToAudio resolved: trackTTS, the existsSync test, and the
\* request of getCurrentFeed.  The locals of convertToAudio are gone.
RunResumes ==
  /\ stage = "tts"
  /\ pc = "returned"
  /\ trackedChars' = returned.characters
  /\ stage' = IF outFile.exists THEN "feed" ELSE "failed"
  /\ reached' = reached \cup {"trackTTS"}
  /\ pc' = "done"
  /\ segments' = <<>>
  /\ totalChars' = 0
  /\ s' = 1
  /\ textChunks' = <<>>
  /\ c' = 1
  /\ chunkFiles' = <<>>
  /\ chunkIndex' = 0
  /\ attempt' = 1
  /\ calls' = <<>>
  /\ UNCHANGED <<script, error, tmpDirExists, tmpFiles, outFile, assembled, returned>>
  /\ UNCHANGED <<usageChars, chunkVars, restVars>>

\* getCurrentFeed resolves with the feed ("ok"), with '' on a 404 ("404"), or
\* rejects ("error"); on a feed, buildUpdatedFeed runs and publishEpisode is called.
FeedResolves(outcome) ==
  /\ stage = "feed"
  /\ IF outcome = "error"
       THEN /\ stage' = "failed"
            /\ UNCHANGED reached
       ELSE /\ stage' = "publish"
            /\ reached' = reached \cup {"buildUpdatedFeed", "publishEpisode"}
  /\ UNCHANGED <<audioVars, trackedChars, usageChars, chunkVars, restVars>>

\* publishEpisode resolves or rejects; after it, the summary and the call of
\* updateTTSUsage(ttsCharacters).
PublishResolves(ok) ==
  /\ stage = "publish"
  /\ IF ok
       THEN /\ stage' = "usage"
            /\ usageChars' = trackedChars
            /\ reached' = reached \cup {"updateTTSUsage"}
       ELSE /\ stage' = "failed"
            /\ UNCHANGED <<usageChars, reached>>
  /\ UNCHANGED <<audioVars, trackedChars, chunkVars, restVars>>

\* updateTTSUsage resolves or rejects; a rejection is caught and logged.
UsageResolves ==
  /\ stage = "usage"
  /\ stage' = "done"
  /\ UNCHANGED <<audioVars, reached, trackedChars, usageChars, chunkVars, restVars>>

\* ---------------------------------------------------------- specification

\* The state when run() calls convertToAudio(script, audioPath): any transcript,
\* no temporary directory, no file at outputPath.
Init ==
  /\ script \in SeqsUpTo(ScriptAlphabet, MaxScriptLen)
  /\ pc = "start"
  /\ segments = <<>>
  /\ totalChars = 0
  /\ s = 1
  /\ textChunks = <<>>
  /\ c = 1
  /\ chunkFiles = <<>>
  /\ chunkIndex = 0
  /\ attempt = 1
  /\ calls = <<>>
  /\ error = "none"
  /\ tmpDirExists = FALSE
  /\ tmpFiles = NoFiles
  /\ outFile = Absent
  /\ assembled = "none"
  /\ returned = [set |-> FALSE, characters |-> 0]
  /\ stage = "tts"
  /\ reached = {}
  /\ trackedChars = 0
  /\ usageChars = 0
  /\ text = <<>>
  /\ maxBytes = 0
  /\ chunks = NotApplied
  /\ RestIdle

Next ==
  \/ Begin
  \/ CallSucceeds
  \/ \E kind \in {"transient", "fatal"} : CallFails(kind)
  \/ BackoffElapses
  \/ RunResumes
  \/ \E outcome \in {"ok", "404", "error"} : FeedResolves(outcome)
  \/ \E ok \in BOOLEAN : PublishResolves(ok)
  \/ UsageResolves

Spec == Init /\ [][Next]_vars

\* convertToAudio called again by a later attempt of runWithRetry, the chunk
\* files of an earlier failed attempt still in /tmp/tts-chunks.

\* The audio of a chunk file written by the earlier attempt.
StaleFragment == Fragment("earlier attempt", <<>>)

\* The directory a failed attempt leaves: chunk-000 up to the chunk it failed at.
StaleFiles(k) ==
  [i \in FileIndices |-> IF i < k THEN File(<<StaleFragment>>) ELSE Absent]

InitStale ==
  /\ script \in SeqsUpTo(ScriptAlphabet, MaxRetryScriptLen)
  /\ pc = "start"
  /\ segments = <<>>
  /\ totalChars = 0
  /\ s = 1
  /\ textChunks = <<>>
  /\ c = 1
  /\ chunkFiles = <<>>
  /\ chunkIndex = 0
  /\ attempt = 1
  /\ calls = <<>>
  /\ error = "none"
  /\ tmpDirExists = TRUE
  /\ \E k \in 1..MaxStale : tmpFiles = StaleFiles(k)
  /\ outFile = Absent
  /\ assembled = "none"
  /\ returned = [set |-> FALSE, characters |-> 0]
  /\ stage = "tts"
  /\ reached = {}
  /\ trackedChars = 0
  /\ usageChars = 0
  /\ text = <<>>
  /\ maxBytes = 0
  /\ chunks = NotApplied
  /\ RestIdle

NextStale ==
  \/ Begin
  \/ CallSucceeds
  \/ \E kind \in {"transient", "fatal"} : CallFails(kind)
  \/ BackoffElapses

SpecStale == InitStale /\ [][NextStale]_vars

\* chunkScript on its own: any text and any ceiling.
InitChunk ==
  /\ text \in SeqsUpTo(TextAlphabet, MaxTextLen)
  /\ maxBytes \in 0..MaxCeiling
  /\ chunks = NotApplied
  /\ script = <<>>
  /\ pc = "idle"
  /\ segments = <<>>
  /\ totalChars = 0
  /\ s = 1
  /\ textChunks = <<>>
  /\ c = 1
  /\ chunkFiles = <<>>
  /\ chunkIndex = 0
  /\ attempt = 1
  /\ calls = <<>>
  /\ error = "none"
  /\ tmpDirExists = FALSE
  /\ tmpFiles = NoFiles
  /\ outFile = Absent
  /\ assembled = "none"
  /\ returned = [set |-> FALSE, characters |-> 0]
  /\ stage = "idle"
  /\ reached = {}
  /\ trackedChars = 0
  /\ usageChars = 0
  /\ RestIdle

ApplyChunkScript ==
  /\ chunks = NotApplied
  /\ chunks' = chunkScript(text, maxBytes)
  /\ UNCHANGED <<text, maxBytes, audioVars, runVars, restVars>>

NextChunk == ApplyChunkScript

SpecChunk == InitChunk /\ [][NextChunk]_vars

\* chunkScript on a turn of twice the ceiling made of well-punctuated sentences,
\* each shorter than the ceiling: a sentence is a run of letters and a full stop,
\* k * BlockLength bytes in all, the sentences after the first led by a space
\* or not.
SentenceSizes == {k \in 1..9 : k * BlockLength < SegmentCeiling}

SentenceOf(k, spaced) ==
  (IF spaced THEN <<" ", "I">> ELSE <<"J">>) \o [j \in 1..(k - 1) |-> "K"] \o <<".">>

RECURSIVE TextOfSizes(_, _, _)
TextOfSizes(sizes, spaced, i) ==
  IF i > Len(sizes) THEN <<>>
  ELSE SentenceOf(sizes[i], spaced /\ i > 1) \o TextOfSizes(sizes, spaced, i + 1)

InitDouble ==
  /\ maxBytes = SegmentCeiling
  /\ \E n \in 1..MaxSentences : \E sizes \in [1..n -> SentenceSizes] :
       \E spaced \in BOOLEAN :
         /\ text = TextOfSizes(sizes, spaced, 1)
         /\ ByteLength(TextOfSizes(sizes, spaced, 1)) = 2 * SegmentCeiling
  /\ chunks = NotApplied
  /\ script = <<>>
  /\ pc = "idle"
  /\ segments = <<>>
  /\ totalChars = 0
  /\ s = 1
  /\ textChunks = <<>>
  /\ c = 1
  /\ chunkFiles = <<>>
  /\ chunkIndex = 0
  /\ attempt = 1
  /\ calls = <<>>
  /\ error = "none"
  /\ tmpDirExists = FALSE
  /\ tmpFiles = NoFiles
  /\ outFile = Absent
  /\ assembled = "none"
  /\ returned = [set |-> FALSE, characters |-> 0]
  /\ stage = "idle"
  /\ reached = {}
  /\ trackedChars = 0
  /\ usageChars = 0
  /\ RestIdle

SpecDouble == InitDouble /\ [][NextChunk]_vars

\* ----------------------------------------------------------- runWithRetry

\* The places where run() can reject: the test of the environment, the script
\* synthesis, the audio step, the feed step and the publish step.
RunFailures == {"env", "script", "audio", "feed", "publish"}

\* One call of run(), as the log keeps it.
RunCall(n) == [attempt |-> n, outcome |-> "pending", delaySec |-> 0, waited |-> 0]

\* run() resolves: runWithRetry returns.
RunResolves ==
  /\ runPc = "running"
  /\ runLog' = [runLog EXCEPT ![Len(runLog)].outcome = "ok"]
  /\ runPc' = "returned"
  /\ UNCHANGED <<runAttempt, exitStatus>>
  /\ UNCHANGED <<audioVars, runVars, chunkVars, memoryVars, fetchVars, costVars, lateVars>>

\* A plausible slip: the retry test off by one (attempt < maxRetries).
RunRejectsOffByOne(failure) ==
  /\ runPc = "running"
  /\ IF runAttempt < MaxRunRetries
       THEN /\ runLog' = [runLog EXCEPT
                            ![Len(runLog)].outcome = failure,
                            ![Len(runLog)].delaySec = runAttempt * RunBackoffFactor]
            /\ runPc' = "backoff"
            /\ UNCHANGED exitStatus
       ELSE /\ runLog' = [runLog EXCEPT ![Len(runLog)].outcome = failure]
            /\ runPc' = "exited"
            /\ exitStatus' = 1
  /\ UNCHANGED runAttempt
  /\ UNCHANGED <<audioVars, runVars, chunkVars, memoryVars, fetchVars, costVars, lateVars>>

\* run() rejects: the catch of runWithRetry starts the backoff timer while
\* attempt <= maxRetries and calls process.exit(1) otherwise.
RunRejects(failure) ==
  /\ runPc = "running"
  /\ IF runAttempt <= MaxRunRetries
       THEN /\ runLog' = [runLog EXCEPT
                            ![Len(runLog)].outcome = failure,
                            ![Len(runLog)].delaySec = runAttempt * RunBackoffFactor]
            /\ runPc' = "backoff"
            /\ UNCHANGED exitStatus
       ELSE /\ runLog' = [runLog EXCEPT ![Len(runLog)].outcome = failure]
            /\ runPc' = "exited"
            /\ exitStatus' = 1
  /\ UNCHANGED runAttempt
  /\ UNCHANGED <<audioVars, runVars, chunkVars, memoryVars, fetchVars, costVars, lateVars>>

\* A second of the backoff passes.
SecondPasses ==
  /\ runPc = "backoff"
  /\ runLog[Len(runLog)].waited < runLog[Len(runLog)].delaySec
  /\ runLog' = [runLog EXCEPT ![Len(runLog)].waited = @ + 1]
  /\ UNCHANGED <<runPc, runAttempt, exitStatus>>
  /\ UNCHANGED <<audioVars, runVars, chunkVars, memoryVars, fetchVars, costVars, lateVars>>

\* The timer set for delaySec * 1000 ms fires: the for loop goes round and calls
\* run() again.
RunTimerFires ==
  /\ runPc = "backoff"
  /\ runLog[Len(runLog)].waited >= runLog[Len(runLog)].delaySec
  /\ runAttempt' = runAttempt + 1
  /\ runLog' = Append(runLog, RunCall(runAttempt + 1))
  /\ runPc' = "running"
  /\ UNCHANGED exitStatus
  /\ UNCHANGED <<audioVars, runVars, chunkVars, memoryVars, fetchVars, costVars, lateVars>>

\* runWithRetry() from its call to its first await: attempt 1 and the call of run().
InitRetry ==
  /\ runPc = "running"
  /\ runAttempt = 1
  /\ runLog = <<RunCall(1)>>
  /\ exitStatus = -1
  /\ CoreIdle
  /\ LateIdle
  /\ MemoryIdle
  /\ FetchIdle
  /\ CostIdle

NextRetry ==
  \/ RunResolves
  \/ \E failure \in RunFailures : RunRejects(failure)
  \/ SecondPasses
  \/ RunTimerFires

\* Every call of run() settles and every timer fires.
SpecRetry == InitRetry /\ [][NextRetry]_vars /\ WF_vars(NextRetry)

\* ----------------------------------------------------------- episode memory

Min(a, b) == IF a <= b THEN a ELSE b

\* (memoryData.episodes || [])
EpisodesOf(memoryData) ==
  IF "episodes" \in DOMAIN memoryData THEN memoryData.episodes ELSE <<>>

\* A plausible slip: the trim taken from the end (slice(-MAX_EPISODES)).
addEpisodeToMemoryKeepLast(memoryData, newRecord) ==
  LET filtered == SelectSeq(EpisodesOf(memoryData),
                            LAMBDA ep : ep.date # newRecord.date)
      all == <<newRecord>> \o filtered
  IN [episodes |-> SubSeq(all, Len(all) - Min(Len(all), MAX_EPISODES) + 1, Len(all))]

\* A plausible slip: the new record put first without the filter on its date.
addEpisodeToMemoryNoFilter(memoryData, newRecord) ==
  LET all == <<newRecord>> \o EpisodesOf(memoryData)
  IN [episodes |-> SubSeq(all, 1, Min(Len(all), MAX_EPISODES))]

\* addEpisodeToMemory(memoryData, newRecord): the records of other dates, the new
\* record put first, the first MAX_EPISODES kept.
addEpisodeToMemory(memoryData, newRecord) ==
  LET filtered == SelectSeq(EpisodesOf(memoryData),
                            LAMBDA ep : ep.date # newRecord.date)
      all == <<newRecord>> \o filtered
  IN [episodes |-> SubSeq(all, 1, Min(Len(all), MAX_EPISODES))]

\* One call of addEpisodeToMemory, its result taken as the memory; the record
\* holds the number of the call, so that it differs from every record before it.
AddEpisode(date) ==
  /\ adds < MaxAdds
  /\ memory' = addEpisodeToMemory(memory, Episode(date, adds + 1))
  /\ memoryBefore' = memory
  /\ lastRecord' = Episode(date, adds + 1)
  /\ adds' = adds + 1
  /\ UNCHANGED <<audioVars, runVars, chunkVars, retryVars, fetchVars, costVars, lateVars>>

\* A memory of at most MAX_EPISODES records, no two of one date, newest first.
InitMemory ==
  /\ \E n \in 0..MAX_EPISODES :
       memory = [episodes |-> [i \in 1..n |-> Episode(n + 1 - i, 0)]]
  /\ memoryBefore = [episodes |-> <<>>]
  /\ lastRecord = Episode(0, 0)
  /\ adds = 0
  /\ CoreIdle
  /\ LateIdle
  /\ RetryIdle
  /\ FetchIdle
  /\ CostIdle

NextMemory == \E date \in 1..MaxDate : AddEpisode(date)

SpecMemory == InitMemory /\ [][NextMemory]_vars

\* ---------------------------------------------------------- content fetcher

\* The sources of fetchDatabricksContent and of fetchAINews, in the order of their
\* Promise.all arrays.
DatabricksSources == <<"releaseNotes", "blog", "newsroom", "execTweets">>

AISources == <<"openai", "anthropic", "deepmind", "meta", "verge", "techcrunch",
               "venturebeat", "hn", "arxiv">>

AllSources == DatabricksSources \o AISources

\* The sources that are one request and its parse inside one try.
SimpleSources == {"releaseNotes", "blog", "newsroom", "openai", "anthropic",
                  "deepmind", "meta", "verge", "techcrunch", "venturebeat", "arxiv"}

\* const users = ['alighodsi', 'rxin', 'matei_zaharia']
TwitterUsers == <<"alighodsi", "rxin", "matei_zaharia">>

\* An item a source returns: the source it names and its rank there.
Item(source, n) == [source |-> source, n |-> n]

\* What a source function resolves with: its items.
Returned(source, items) ==
  [source |-> source, failed |-> FALSE, thrown |-> FALSE, items |-> items]

\* A plausible slip: a source function without its try/catch, its error rejecting
\* its promise.
UncaughtFailure(source) ==
  [source |-> source, failed |-> TRUE, thrown |-> TRUE, items |-> <<>>]

\* The catch of a source function: the error is logged and [] returned.
CaughtFailure(source) ==
  [source |-> source, failed |-> TRUE, thrown |-> FALSE, items |-> <<>>]

\* The source whose promise settles next.  The source functions share no state, so
\* the order in which their requests come back changes nothing they compute; the
\* model lets them settle in the order of the Promise.all arrays.
NextSource ==
  IF Len(settled) < Len(AllSources) THEN AllSources[Len(settled) + 1] ELSE "none"

RECURSIVE ConcatItems(_, _, _)
ConcatItems(results, a, b) ==
  IF a > b THEN <<>> ELSE results[a].items \o ConcatItems(results, a + 1, b)

\* The state of fetchDatabricksExecTweets at the head of its loop over users.
TwitterStart == [user |-> 1, step |-> "lookup", items |-> <<>>, apiCalls |-> 0,
                 failedUsers |-> {}]

\* The state of fetchHackerNewsAI before its first request resolved.
HackerNewsStart == [top |-> "pending", stories |-> <<>>]

\* The request of a simple source resolves and its page is parsed (ok), or the
\* request is rejected or the parse throws.
SimpleSourceSettles(ok) ==
  /\ fetchPc = "fetching"
  /\ NextSource \in SimpleSources
  /\ settled' = Append(settled,
                       IF ok THEN Returned(NextSource, <<Item(NextSource, 1)>>)
                             ELSE CaughtFailure(NextSource))
  /\ UNCHANGED <<fetchPc, token, tw, hn, bundle>>
  /\ UNCHANGED <<audioVars, runVars, chunkVars, retryVars, memoryVars, costVars, lateVars>>

\* fetchDatabricksExecTweets without TWITTER_BEARER_TOKEN: { items: [], apiCalls: 0 }.
TwitterSkipped ==
  /\ fetchPc = "fetching"
  /\ NextSource = "execTweets"
  /\ ~token
  /\ settled' = Append(settled, Returned("execTweets", <<>>))
  /\ UNCHANGED <<fetchPc, token, tw, hn, bundle>>
  /\ UNCHANGED <<audioVars, runVars, chunkVars, retryVars, memoryVars, costVars, lateVars>>

\* The loop over users goes on to the next user, or, after the last one, the
\* function returns { items, apiCalls }.
TwitterGoesOn(state) ==
  IF state.user < Len(TwitterUsers)
    THEN /\ tw' = [state EXCEPT !.user = @ + 1, !.step = "lookup"]
         /\ UNCHANGED settled
    ELSE /\ tw' = [state EXCEPT !.user = @ + 1, !.step = "done"]
         /\ settled' = Append(settled, Returned("execTweets", state.items))

\* The lookup of the user's id resolves with an id ("ok"), resolves without one
\* ("invalid": warned and skipped), or is rejected ("error": caught per user).
TwitterLookupSettles(outcome) ==
  /\ fetchPc = "fetching"
  /\ NextSource = "execTweets"
  /\ token
  /\ tw.step = "lookup"
  /\ CASE outcome = "ok" ->
            /\ tw' = [tw EXCEPT !.apiCalls = @ + 1, !.step = "tweets"]
            /\ UNCHANGED settled
       [] outcome = "invalid" ->
            TwitterGoesOn([tw EXCEPT !.apiCalls = @ + 1,
                                     !.failedUsers = @ \cup {tw.user}])
       [] outcome = "error" ->
            TwitterGoesOn([tw EXCEPT !.failedUsers = @ \cup {tw.user}])
  /\ UNCHANGED <<fetchPc, token, hn, bundle>>
  /\ UNCHANGED <<audioVars, runVars, chunkVars, retryVars, memoryVars, costVars, lateVars>>

\* The request of the user's tweets resolves (its tweets become items) or is
\* rejected (caught per user).
TwitterTweetsSettle(ok) ==
  /\ fetchPc = "fetching"
  /\ NextSource = "execTweets"
  /\ token
  /\ tw.step = "tweets"
  /\ IF ok
       THEN TwitterGoesOn([tw EXCEPT !.apiCalls = @ + 1,
                                     !.items = Append(@, Item("execTweets", tw.user))])
       ELSE TwitterGoesOn([tw EXCEPT !.failedUsers = @ \cup {tw.user}])
  /\ UNCHANGED <<fetchPc, token, hn, bundle>>
  /\ UNCHANGED <<audioVars, runVars, chunkVars, retryVars, memoryVars, costVars, lateVars>>

\* The request of the top stories resolves, and the requests of the stories are
\* sent, or it is rejected (caught: []).
HackerNewsTopSettles(ok) ==
  /\ fetchPc = "fetching"
  /\ NextSource = "hn"
  /\ hn.top = "pending"
  /\ IF ok
       THEN /\ hn' = [hn EXCEPT !.top = "ok"]
            /\ UNCHANGED settled
       ELSE /\ hn' = [hn EXCEPT !.top = "failed"]
            /\ settled' = Append(settled, CaughtFailure("hn"))
  /\ UNCHANGED <<fetchPc, token, tw, bundle>>
  /\ UNCHANGED <<audioVars, runVars, chunkVars, retryVars, memoryVars, costVars, lateVars>>

\* The items of the stories that came back, at most 5 of them: a story whose
\* request was rejected is null and is passed over.
RECURSIVE StoryItems(_, _, _)
StoryItems(stories, k, items) ==
  IF k > Len(stories) THEN items
  ELSE StoryItems(stories, k + 1,
                  IF stories[k] /\ Len(items) < 5
                    THEN Append(items, Item("hn", k)) ELSE items)

\* The request of one story resolves (an AI story) or is rejected (.catch(() =>
\* null)); after the last one Promise.all resolves and the stories are filtered.
HackerNewsStorySettles(ok) ==
  /\ fetchPc = "fetching"
  /\ NextSource = "hn"
  /\ hn.top = "ok"
  /\ Len(hn.stories) < MaxStories
  /\ hn' = [hn EXCEPT !.stories = Append(@, ok)]
  /\ IF Len(hn.stories) + 1 = MaxStories
       THEN settled' = Append(settled,
                              Returned("hn", StoryItems(Append(hn.stories, ok), 1, <<>>)))
       ELSE UNCHANGED settled
  /\ UNCHANGED <<fetchPc, token, tw, bundle>>
  /\ UNCHANGED <<audioVars, runVars, chunkVars, retryVars, memoryVars, costVars, lateVars>>

\* Both Promise.all of the fetcher and the one of run() settle: when a source
\* rejected, run() fails; otherwise the content bundle is built, the Twitter calls
\* are tracked and synthesizeScript is called.
FetchJoins ==
  /\ fetchPc = "fetching"
  /\ Len(settled) = Len(AllSources)
  /\ IF \E k \in 1..Len(settled) : settled[k].thrown
       THEN /\ fetchPc' = "failed"
            /\ UNCHANGED bundle
       ELSE /\ fetchPc' = "synthesizing"
            /\ bundle' = [databricks |-> ConcatItems(settled, 1, Len(DatabricksSources)),
                          aiNews |-> ConcatItems(settled, Len(DatabricksSources) + 1,
                                                 Len(settled)),
                          twitterApiCalls |-> tw.apiCalls]
  /\ UNCHANGED <<token, settled, tw, hn>>
  /\ UNCHANGED <<audioVars, runVars, chunkVars, retryVars, memoryVars, costVars, lateVars>>

\* run() at its Promise.all: every source function has run to its first await;
\* TWITTER_BEARER_TOKEN is set or not.
InitFetch ==
  /\ fetchPc = "fetching"
  /\ token \in BOOLEAN
  /\ settled = <<>>
  /\ tw = TwitterStart
  /\ hn = HackerNewsStart
  /\ bundle = [databricks |-> <<>>, aiNews |-> <<>>, twitterApiCalls |-> 0]
  /\ CoreIdle
  /\ LateIdle
  /\ RetryIdle
  /\ MemoryIdle
  /\ CostIdle

NextFetch ==
  \/ \E ok \in BOOLEAN : SimpleSourceSettles(ok)
  \/ TwitterSkipped
  \/ \E outcome \in {"ok", "invalid", "error"} : TwitterLookupSettles(outcome)
  \/ \E ok \in BOOLEAN : TwitterTweetsSettle(ok)
  \/ \E ok \in BOOLEAN : HackerNewsTopSettles(ok)
  \/ \E ok \in BOOLEAN : HackerNewsStorySettles(ok)
  \/ FetchJoins

SpecFetch == InitFetch /\ [][NextFetch]_vars

\* ------------------------------------------------------ cost accumulation

\* The counts a call is given, and the voice types run() and the tests pass.
Counts == 0..MaxCount

VoiceTypes == {"wavenet", "standard"}

\* What the caller of a track method has seen after it: one more call, the
\* returned cost added to the service's sum, the arguments added to theirs.
Seen(service, cost, inputTokens, outputTokens, characters, apiCalls) ==
  [calls |-> ledger.calls + 1,
   returned |-> [ledger.returned EXCEPT ![service] = FAdd(@, cost)],
   args |-> [claudeInputTokens |-> ledger.args.claudeInputTokens + inputTokens,
             claudeOutputTokens |-> ledger.args.claudeOutputTokens + outputTokens,
             ttsCharacters |-> ledger.args.ttsCharacters + characters,
             twitterCalls |-> ledger.args.twitterCalls + apiCalls]]

\* A track method runs: r is the tracker after it with the cost it returns.
Tracked(service, r) ==
  /\ tracker' = [costs |-> r.costs, usage |-> r.usage]
  /\ trackerBefore' = tracker
  /\ lastReturn' = [service |-> service, cost |-> r.cost]
  /\ UNCHANGED <<audioVars, runVars, chunkVars, retryVars, memoryVars, fetchVars, lateVars>>

TrackClaude(inputTokens, outputTokens) ==
  /\ ledger.calls < MaxCalls
  /\ LET r == trackClaude(tracker, inputTokens, outputTokens)
     IN /\ Tracked("claude", r)
        /\ ledger' = Seen("claude", r.cost, inputTokens, outputTokens, 0, 0)

TrackTTS(characters, voiceType) ==
  /\ ledger.calls < MaxCalls
  /\ LET r == trackTTS(tracker, characters, voiceType)
     IN /\ Tracked("tts", r)
        /\ ledger' = Seen("tts", r.cost, 0, 0, characters, 0)

TrackTwitter(apiCalls) ==
  /\ ledger.calls < MaxCalls
  /\ LET r == trackTwitter(tracker, apiCalls)
     IN /\ Tracked("twitter", r)
        /\ ledger' = Seen("twitter", r.cost, 0, 0, 0, apiCalls)

\* A tracker fresh from its constructor.
InitCost ==
  /\ tracker = NewCostTracker
  /\ trackerBefore = NewCostTracker
  /\ lastReturn = [service |-> "none", cost |-> Zero]
  /\ ledger = NoLedger
  /\ CoreIdle
  /\ LateIdle
  /\ RetryIdle
  /\ MemoryIdle
  /\ FetchIdle

NextCost ==
  \/ \E inputTokens \in Counts, outputTokens \in Counts :
       TrackClaude(inputTokens, outputTokens)
  \/ \E characters \in Counts, voiceType \in VoiceTypes : TrackTTS(characters, voiceType)
  \/ \E apiCalls \in Counts : TrackTwitter(apiCalls)

SpecCost == InitCost /\ [][NextCost]_vars

\* ---------------------------------------------------------------- publisher

\* A feed is a sequence of tokens: the tags the code and the claims look at, each
\* one token, ">" for a > elsewhere, " " for white space, "x" for other text, and
\* the URL of an episode.
ExplicitClose == "</itunes:explicit>"

FeedAlphabet == {"x", " ", ">", ExplicitClose, "<item>", "</item>"}

\* A feed that is null.
NullFeed == <<"null">>

\* str.replace(/</g, '&lt;').replace(/>/g, '&gt;') on one token.
EscapedToken(t) ==
  CASE t = ExplicitClose -> "&lt;/itunes:explicit&gt;"
    [] t = "<item>" -> "&lt;item&gt;"
    [] t = "</item>" -> "&lt;/item&gt;"
    [] t = ">" -> "&gt;"
    [] OTHER -> t

\* A plausible slip: the text put into the feed as it is.
escapeXmlRaw(str) == str

escapeXml(str) == [i \in 1..Len(str) |-> EscapedToken(str[i])]

\* Whether the text of a token holds a >.
HasGt(t) == t \in {">", ExplicitClose, "<item>", "</item>"}

\* String.prototype.indexOf for a token, from a position on: the first position
\* at or after from that holds it, 0 (for the -1 of the language) when none does.
IndexOf(feed, t, from) ==
  IF \E i \in from..Len(feed) : feed[i] = t
    THEN CHOOSE i \in from..Len(feed) :
           feed[i] = t /\ \A j \in from..(i - 1) : feed[j] # t
    ELSE 0

\* existingFeedXml.indexOf('>', insertPosition) + 1, as the number of tokens
\* before the insert point: up to the first token from insertPosition on whose
\* text holds a >.
InsertPoint(feed, insertPosition) ==
  CHOOSE i \in insertPosition..Len(feed) :
    HasGt(feed[i]) /\ \A j \in insertPosition..(i - 1) : ~HasGt(feed[j])

\* newItem: white space, the item's opening tag, the escaped description (the
\* title is escaped the same way), the episode URL, the closing tag.
NewItem(ep) ==
  <<" ", "<item>">> \o escapeXml(ep.description) \o <<ep.fileName, "</item>">>

\* The feed built from scratch: the channel's head up to the explicit tag, the
\* new item, the channel's end.
FirstFeed(ep) == <<"x", ExplicitClose, " ">> \o NewItem(ep) \o <<" ", "x">>

\* A plausible slip: a feed without the tag taken as no feed.
buildUpdatedFeedLenient(existing, ep) ==
  IF existing = NullFeed \/ Trim(existing) = <<>> THEN FeedReturned(FirstFeed(ep))
  ELSE LET insertPosition == IndexOf(existing, ExplicitClose, 1)
       IN IF insertPosition = 0 THEN FeedReturned(FirstFeed(ep))
          ELSE LET insertPoint == InsertPoint(existing, insertPosition)
               IN FeedReturned(SubSeq(existing, 1, insertPoint) \o NewItem(ep)
                                 \o SubSeq(existing, insertPoint + 1, Len(existing)))

buildUpdatedFeed(existing, ep) ==
  IF existing = NullFeed \/ Trim(existing) = <<>> THEN FeedReturned(FirstFeed(ep))
  ELSE LET insertPosition == IndexOf(existing, ExplicitClose, 1)
       IN IF insertPosition = 0
            THEN FeedThrown("Invalid feed XML: missing </itunes:explicit> tag")
            ELSE LET insertPoint == InsertPoint(existing, insertPosition)
                 IN FeedReturned(SubSeq(existing, 1, insertPoint) \o NewItem(ep)
                                   \o SubSeq(existing, insertPoint + 1, Len(existing)))

\* The episodes handed to buildUpdatedFeed: the file of one of two dates, a
\* description that is plain or holds the text of a tag.
Episodes ==
  [fileName : {"a.mp3", "b.mp3"},
   description : {<<"x">>, <<"<item>">>, <<ExplicitClose>>}]

\* One call of buildUpdatedFeed.
BuildFeed ==
  /\ updatedFeed = NotBuilt
  /\ updatedFeed' = buildUpdatedFeed(existingFeedXml, episode)
  /\ UNCHANGED <<existingFeedXml, episode, builds>>
  /\ UNCHANGED <<audioVars, runVars, chunkVars, retryVars, memoryVars, fetchVars, costVars>>
  /\ UNCHANGED <<formatVars, publishVars>>

\* The feed the call returned is published and is the existing feed of the next
\* episode.
NextEpisode(fileName) ==
  /\ updatedFeed # NotBuilt
  /\ ~updatedFeed.threw
  /\ builds + 1 < MaxBuilds
  /\ existingFeedXml' = updatedFeed.feed
  /\ episode' = [fileName |-> fileName, description |-> <<"x">>]
  /\ updatedFeed' = NotBuilt
  /\ builds' = builds + 1
  /\ UNCHANGED <<audioVars, runVars, chunkVars, retryVars, memoryVars, fetchVars, costVars>>
  /\ UNCHANGED <<formatVars, publishVars>>

\* Any existing feed, or none, and any episode.
InitFeed ==
  /\ existingFeedXml \in SeqsUpTo(FeedAlphabet, MaxFeedLen) \cup {NullFeed}
  /\ episode \in Episodes
  /\ updatedFeed = NotBuilt
  /\ builds = 0
  /\ FormatIdle
  /\ PublishIdle
  /\ CoreIdle
  /\ RetryIdle
  /\ MemoryIdle
  /\ FetchIdle
  /\ CostIdle

NextFeed ==
  \/ BuildFeed
  \/ \E fileName \in {"a.mp3", "b.mp3"} : NextEpisode(fileName)

SpecFeed == InitFeed /\ [][NextFeed]_vars

\* ------------------------------------------------------- memory for prompt

\* The hours of a day, and the day new Date() falls on in UTC.
HoursPerDay == 24

Today == 10

\* new Date(ep.date): a date of the form YYYY-MM-DD is taken as midnight UTC of
\* that day. Dates are day numbers.
ParseDate(date) == date * HoursPerDay

\* The calendar day an instant falls on in the process's time zone.
LocalDay(instant, offset) == (instant + offset) \div HoursPerDay

\* cutoff = new Date(); setDate(getDate() - days); setHours(0, 0, 0, 0): local
\* midnight of the local day that lies n days before the local day of the instant.
Cutoff(instant, offset, n) == (LocalDay(instant, offset) - n) * HoursPerDay - offset

RECURSIVE JoinWith(_, _, _)
\* parts.slice(i - 1).join(sep), parts a sequence of token sequences.
JoinWith(parts, sep, i) ==
  IF i > Len(parts) THEN <<>>
  ELSE IF i = Len(parts) THEN parts[i]
  ELSE parts[i] \o <<sep>> \o JoinWith(parts, sep, i + 1)

\* `- ${ep.date}: ${ep.summary}${topics}`
PromptLine(ep) ==
  <<"- ", ToString(ep.date), ": ", ep.summary>>
    \o (IF Len(ep.keyTopics) > 0
          THEN <<" [Topics: ">>
                 \o JoinWith([i \in 1..Len(ep.keyTopics) |-> <<ep.keyTopics[i]>>], ", ", 1)
                 \o <<"]">>
          ELSE <<>>)

\* formatMemoryForPrompt(memoryData, days), called at the instant and in the
\* time zone given. The empty string is the empty sequence.
formatMemoryForPrompt(data, n, instant, offset) ==
  IF Len(EpisodesOf(data)) = 0 THEN <<>>
  ELSE LET relevant == SelectSeq(EpisodesOf(data),
                                 LAMBDA ep : ParseDate(ep.date) >= Cutoff(instant, offset, n))
       IN IF Len(relevant) = 0 THEN <<>>
          ELSE JoinWith([i \in 1..Len(relevant) |-> PromptLine(relevant[i])], "\n", 1)

\* The records a memory can hold: dates around the cutoffs, with and without
\* topics.
FormatDates == (Today - MaxWindow - 2)..(Today + 1)

FormatRecords ==
  [date : FormatDates, summary : {"summary"}, keyTopics : {<<>>, <<"t1", "t2">>}]

\* A memory object without an episodes field.
NoEpisodesField == [note |-> "first run"]

\* The time zones of the process: US Central (standard time), UTC, Japan.
Zones == {-6, 0, 9}

\* The hour of the day (UTC) at which the call is made.
ClockHours == {0, 5, 12, 23}

FormatMemory ==
  /\ prompt = NotFormatted
  /\ prompt' = formatMemoryForPrompt(promptMemory, days, now, zone)
  /\ UNCHANGED <<promptMemory, days, now, zone>>
  /\ UNCHANGED <<audioVars, runVars, chunkVars, retryVars, memoryVars, fetchVars, costVars>>
  /\ UNCHANGED <<feedVars, publishVars>>

\* Any memory, any number of days, any hour of today, any of the time zones.
InitFormat ==
  /\ promptMemory \in {[episodes |-> eps] : eps \in SeqsUpTo(FormatRecords, MaxMemLen)}
                      \cup {NoEpisodesField}
  /\ days \in 0..MaxWindow
  /\ now \in {Today * HoursPerDay + h : h \in ClockHours}
  /\ zone \in Zones
  /\ prompt = NotFormatted
  /\ FeedIdle
  /\ PublishIdle
  /\ CoreIdle
  /\ RetryIdle
  /\ MemoryIdle
  /\ FetchIdle
  /\ CostIdle

NextFormat == FormatMemory

SpecFormat == InitFormat /\ [][NextFormat]_vars

\* ------------------------------------------------------ publishing runs

\* The pipeline runs that overlap, and the episode files they can publish (runs of
\* one day publish one file name).
Runs == {1, 2}

FileNames == {"a.mp3", "b.mp3"}

\* The episode published before the runs, if any.
OldEpisode == [fileName |-> "old.mp3", description |-> <<"x">>]

\* A file of the branch: absent, or present with the sha of its last commit.
\* A sha is the number of commits made to the path; null is 0.
NoFile == [exists |-> FALSE, sha |-> 0]

\* The status of a response of the contents API; 0 is a request that got no
\* response.
Ok == 200

NotFound == 404

ServerError == 500

Conflict == 409

\* What GET /contents/{path} answers when it answers.
GetStatus(file) == IF file.exists THEN Ok ELSE NotFound

\* What a call of an async function gives: the value it resolved with or a throw.
Resolved(value) == [threw |-> FALSE, value |-> value]

Rejected == [threw |-> TRUE, value |-> <<>>]

\* A plausible slip: every failed read taken as "no feed yet".
getCurrentFeedSwallow(status, content) ==
  IF status = Ok THEN Resolved(content) ELSE Resolved(<<>>)

\* getCurrentFeed(): the content on 200, '' on 404, otherwise the error thrown.
getCurrentFeed(status, content) ==
  IF status = Ok THEN Resolved(content)
  ELSE IF status = NotFound THEN Resolved(<<>>)
  ELSE Rejected

\* getFileSha(filePath): the sha on 200, null on 404, otherwise the error thrown.
getFileSha(status, sha) ==
  IF status = Ok THEN Resolved(sha)
  ELSE IF status = NotFound THEN Resolved(0)
  ELSE Rejected

\* PUT /contents/{path} on the server: a new file is created when no sha is sent,
\* an existing file is replaced when the sha sent is its sha.
PutAccepted(file, sha) == IF file.exists THEN sha = file.sha ELSE sha = 0

\* A plausible slip: feed.xml committed before the MP3.
PublishOrderFeedFirst == <<"feed", "mp3">>

\* publishEpisode: the files it commits, in order.
PublishOrder == <<"mp3", "feed">>

\* A plausible slip: the append of logToFile outside a try.
logToFileUncaught(appended) == IF appended THEN "resolved" ELSE "thrown"

\* costTracker.logToFile: a failure of appendFileSync is caught and logged.
logToFile(appended) == "resolved"

\* The file of the branch a step of publishEpisode is about.
FileAt(r, which) ==
  IF which = "feed" THEN [exists |-> repo.feed.exists, sha |-> repo.feed.sha]
  ELSE repo.mp3[proc[r].fileName]

\* The step after the commit of the k-th file of publishEpisode.
AfterCommit(k) ==
  IF k < Len(PublishOrder) THEN [pc |-> "sha", file |-> k + 1]
  ELSE [pc |-> "log", file |-> k]

\* An attempt of a run fails: run() rethrows to runWithRetry.
Fail(r) == [proc EXCEPT ![r].pc = "failed"]

\* A failure may be met while the bound on failures allows.
MayFail == faults < MaxFaults

\* const existingFeed = await getCurrentFeed()
GetCurrentFeed(r) ==
  /\ proc[r].pc = "getCurrentFeed"
  /\ \E status \in {GetStatus(repo.feed), ServerError, 0} :
       /\ status \in {ServerError, 0} => MayFail
       /\ LET got == getCurrentFeed(status, repo.feed.content)
          IN /\ proc' = IF got.threw
                          THEN [proc EXCEPT ![r].pc = "failed", ![r].status = status]
                          ELSE [proc EXCEPT ![r].pc = "buildUpdatedFeed",
                                            ![r].status = status,
                                            ![r].existingFeed = got.value]
             /\ faults' = IF status \in {ServerError, 0} THEN faults + 1 ELSE faults
  /\ UNCHANGED <<repo, feed0>>
  /\ UNCHANGED <<audioVars, runVars, chunkVars, retryVars, memoryVars, fetchVars, costVars>>
  /\ UNCHANGED <<feedVars, formatVars>>

\* const updatedFeed = buildUpdatedFeed(existingFeed, episode, ...)
BuildUpdatedFeed(r) ==
  /\ proc[r].pc = "buildUpdatedFeed"
  /\ LET built == buildUpdatedFeed(proc[r].existingFeed,
                                   [fileName |-> proc[r].fileName, description |-> <<"x">>])
     IN proc' = IF built.threw THEN Fail(r)
                ELSE [proc EXCEPT ![r].pc = "readFile", ![r].updatedFeed = built.feed,
                                  ![r].builtFrom = proc[r].status]
  /\ UNCHANGED <<repo, feed0, faults>>
  /\ UNCHANGED <<audioVars, runVars, chunkVars, retryVars, memoryVars, fetchVars, costVars>>
  /\ UNCHANGED <<feedVars, formatVars>>

\* publishEpisode: fs.readFileSync(mp3Path)
ReadFile(r) ==
  /\ proc[r].pc = "readFile"
  /\ \E read \in BOOLEAN :
       /\ ~read => MayFail
       /\ proc' = IF read THEN [proc EXCEPT ![r].pc = "sha", ![r].file = 1]
                  ELSE Fail(r)
       /\ faults' = IF read THEN faults ELSE faults + 1
  /\ UNCHANGED <<repo, feed0>>
  /\ UNCHANGED <<audioVars, runVars, chunkVars, retryVars, memoryVars, fetchVars, costVars>>
  /\ UNCHANGED <<feedVars, formatVars>>

\* commitFile: const sha = await getFileSha(filePath)
GetFileSha(r) ==
  /\ proc[r].pc = "sha"
  /\ LET file == FileAt(r, PublishOrder[proc[r].file])
     IN \E status \in {GetStatus(file), ServerError} :
          /\ status = ServerError => MayFail
          /\ LET got == getFileSha(status, file.sha)
             IN proc' = IF got.threw THEN Fail(r)
                        ELSE [proc EXCEPT ![r].pc = "put", ![r].sha = got.value]
          /\ faults' = IF status = ServerError THEN faults + 1 ELSE faults
  /\ UNCHANGED <<repo, feed0>>
  /\ UNCHANGED <<audioVars, runVars, chunkVars, retryVars, memoryVars, fetchVars, costVars>>
  /\ UNCHANGED <<feedVars, formatVars>>

\* commitFile: await axios.put(...) with the sha read before it. A request that
\* is rejected has changed nothing on the branch.
PutFile(r) ==
  /\ proc[r].pc = "put"
  /\ LET which == PublishOrder[proc[r].file]
         file == FileAt(r, which)
     IN \E status \in {IF PutAccepted(file, proc[r].sha) THEN Ok ELSE Conflict, ServerError} :
          /\ status = ServerError => MayFail
          /\ faults' = IF status = ServerError THEN faults + 1 ELSE faults
          /\ IF status = Ok
               THEN /\ repo' = IF which = "feed"
                                 THEN [repo EXCEPT !.feed = [exists |-> TRUE,
                                                             sha |-> file.sha + 1,
                                                             content |-> proc[r].updatedFeed]]
                                 ELSE [repo EXCEPT !.mp3[proc[r].fileName] =
                                                     [exists |-> TRUE, sha |-> file.sha + 1]]
                    /\ proc' = [proc EXCEPT ![r].pc = AfterCommit(proc[r].file).pc,
                                            ![r].file = AfterCommit(proc[r].file).file,
                                            ![r].commits = Append(proc[r].commits, which)]
               ELSE /\ repo' = repo
                    /\ proc' = Fail(r)
  /\ UNCHANGED feed0
  /\ UNCHANGED <<audioVars, runVars, chunkVars, retryVars, memoryVars, fetchVars, costVars>>
  /\ UNCHANGED <<feedVars, formatVars>>

\* costTracker.printSummary(); costTracker.logToFile('/tmp/podcast-costs.jsonl')
LogCosts(r) ==
  /\ proc[r].pc = "log"
  /\ \E appended \in BOOLEAN :
       /\ ~appended => MayFail
       /\ proc' = IF logToFile(appended) = "resolved"
                    THEN [proc EXCEPT ![r].pc = "updateTTSUsage"]
                    ELSE Fail(r)
       /\ faults' = IF appended THEN faults ELSE faults + 1
  /\ UNCHANGED <<repo, feed0>>
  /\ UNCHANGED <<audioVars, runVars, chunkVars, retryVars, memoryVars, fetchVars, costVars>>
  /\ UNCHANGED <<feedVars, formatVars>>

\* try { await updateTTSUsage(ttsCharacters) } catch (err) { console.error(...) }
\* and run() resolves, so that runWithRetry returns.
UpdateUsage(r) ==
  /\ proc[r].pc = "updateTTSUsage"
  /\ \E updated \in BOOLEAN :
       /\ ~updated => MayFail
       /\ proc' = [proc EXCEPT ![r].pc = "returned"]
       /\ faults' = IF updated THEN faults ELSE faults + 1
  /\ UNCHANGED <<repo, feed0>>
  /\ UNCHANGED <<audioVars, runVars, chunkVars, retryVars, memoryVars, fetchVars, costVars>>
  /\ UNCHANGED <<feedVars, formatVars>>

\* runWithRetry's catch: the next attempt after the delay, or process.exit(1).
\* The steps of run() before getCurrentFeed are taken to succeed.
AttemptFailed(r) ==
  /\ proc[r].pc = "failed"
  /\ proc' = IF proc[r].attempt <= MaxRunRetries
               THEN [proc EXCEPT ![r].pc = "getCurrentFeed",
                                 ![r].attempt = proc[r].attempt + 1,
                                 ![r].commits = Append(proc[r].commits, "retry")]
               ELSE [proc EXCEPT ![r].pc = "exited"]
  /\ UNCHANGED <<repo, feed0, faults>>
  /\ UNCHANGED <<audioVars, runVars, chunkVars, retryVars, memoryVars, fetchVars, costVars>>
  /\ UNCHANGED <<feedVars, formatVars>>

\* A run at the start of its first attempt, about to read the feed.
NewRun(fileName) ==
  [pc |-> "getCurrentFeed", attempt |-> 1, fileName |-> fileName, status |-> 0,
   builtFrom |-> 0, existingFeed |-> <<>>, updatedFeed |-> <<>>, sha |-> 0, file |-> 1,
   commits |-> <<>>]

\* A branch without a feed, or with the feed of one earlier episode, whose file
\* is there; two runs, for one episode file or for two.
InitPublish ==
  /\ \E old \in BOOLEAN :
       /\ feed0 = IF old THEN FirstFeed(OldEpisode) ELSE <<>>
       /\ repo = [feed |-> [exists |-> old, sha |-> IF old THEN 1 ELSE 0, content |-> feed0],
                  mp3 |-> [f \in FileNames |-> NoFile]]
  /\ \E names \in [Runs -> FileNames] : proc = [r \in Runs |-> NewRun(names[r])]
  /\ faults = 0
  /\ FeedIdle
  /\ FormatIdle
  /\ CoreIdle
  /\ RetryIdle
  /\ MemoryIdle
  /\ FetchIdle
  /\ CostIdle

NextPublish ==
  \E r \in Runs :
    \/ GetCurrentFeed(r)
    \/ BuildUpdatedFeed(r)
    \/ ReadFile(r)
    \/ GetFileSha(r)
    \/ PutFile(r)
    \/ LogCosts(r)
    \/ UpdateUsage(r)
    \/ AttemptFailed(r)

SpecPublish == InitPublish /\ [][NextPublish]_vars

\* ------------------------------------------------------------- properties

\* The chunks of the segments from position i on, each with its turn's speaker:
\* turn order, then chunk order within the turn.
RECURSIVE GlobalChunks(_, _)
GlobalChunks(segs, i) ==
  IF i > Len(segs) THEN <<>>
  ELSE LET tc == TextChunksOf(segs[i].text)
       IN [k \in 1..Len(tc) |-> [speaker |-> segs[i].speaker, text |-> tc[k]]]
            \o GlobalChunks(segs, i + 1)

ExpectedChunks == GlobalChunks(parseScriptBySpeaker(script), 1)

\* C1: every synthesis request is made for the chunk at its index of the global
\* chunk order, with that chunk's text and its speaker's voice; requests are issued
\* in that order (a chunk's retries first, the next chunk only after a success);
\* and the artifact convertToAudio returns with is the fragments of all the chunks
\* of the global order, first to last.
C1_OrderPreserved ==
  LET exp == ExpectedChunks
  IN /\ \A k \in 1..Len(calls) :
          /\ calls[k].idx < Len(exp)
          /\ calls[k].text = exp[calls[k].idx + 1].text
          /\ calls[k].voice = VOICE_CONFIGS(exp[calls[k].idx + 1].speaker)
          /\ IF k = 1
               THEN calls[k].idx = 0
               ELSE \/ calls[k].idx = calls[k - 1].idx /\ calls[k - 1].result # "ok"
                    \/ calls[k].idx = calls[k - 1].idx + 1 /\ calls[k - 1].result = "ok"
     /\ pc = "returned" =>
          /\ Len(outFile.data) = Len(exp)
          /\ \A k \in 1..Len(exp) :
               /\ outFile.data[k] = Fragment(VOICE_CONFIGS(exp[k].speaker), exp[k].text)
               /\ \E j \in 1..Len(calls) : calls[j].idx = k - 1 /\ calls[j].result = "ok"

\* An artifact assembled from two different fragments, one of them after a retry.
C1_Witness ==
  /\ pc = "returned"
  /\ Len(outFile.data) >= 2
  /\ outFile.data[1] # outFile.data[2]
  /\ \E k \in 1..Len(calls) : calls[k].result = "failed"

\* The sentence units chunkScript works on.
UnitsOf(txt) == Sentences(txt)

\* C2: every chunk chunkScript returns is at most maxBytes long in UTF-8 bytes, or
\* is one sentence unit (trimmed) that alone is longer than maxBytes.
C2_ByteCeiling ==
  chunks # NotApplied =>
    \A i \in 1..Len(chunks) :
      \/ ByteLength(chunks[i]) <= maxBytes
      \/ \E k \in 1..Len(UnitsOf(text)) :
           /\ chunks[i] = Trim(UnitsOf(text)[k])
           /\ ByteLength(UnitsOf(text)[k]) > maxBytes

\* Two chunks: one holding a two-byte letter, one a unit over the ceiling.
C2_Witness ==
  /\ chunks # NotApplied
  /\ Len(chunks) >= 2
  /\ \E i \in 1..Len(chunks) : \E k \in 1..Len(chunks[i]) : chunks[i][k] = "E"
  /\ \E i \in 1..Len(chunks) : ByteLength(chunks[i]) > maxBytes
  /\ \E i \in 1..Len(chunks) : ByteLength(chunks[i]) <= maxBytes /\ chunks[i] # <<>>

RECURSIVE JoinWithSpaces(_, _)
JoinWithSpaces(list, i) ==
  IF i > Len(list) THEN <<>>
  ELSE IF i = Len(list) THEN Trim(list[i])
  ELSE Trim(list[i]) \o <<" ">> \o JoinWithSpaces(list, i + 1)

\* C3: the chunks of a text, trimmed and joined in order with single spaces, are
\* the trimmed text.
C3_RoundTrip ==
  chunks # NotApplied => JoinWithSpaces(chunks, 1) = Trim(text)

\* C4: the attempts for a chunk are numbered 1, 2, 3; a failed attempt n <= 2 is
\* followed, after a wait of n * 3 seconds, by attempt n + 1 for the same chunk; a
\* failed attempt 3 is the last request of the call, which throws; a success at
\* attempt K + 1 (after K <= 2 failures) ends the chunk, and the next request, if
\* any, is attempt 1 of the next chunk.
C4_RetryBound ==
  /\ \A k \in 1..Len(calls) :
       LET call == calls[k]
       IN /\ call.attempt \in 1..3
          /\ IF call.attempt = 1
               THEN k = 1 \/ calls[k - 1].result = "ok"
               ELSE /\ k > 1
                    /\ calls[k - 1].idx = call.idx
                    /\ calls[k - 1].attempt = call.attempt - 1
                    /\ calls[k - 1].result = "failed"
                    /\ calls[k - 1].delaySec = 3 * (call.attempt - 1)
          /\ (call.result = "failed" /\ call.attempt <= 2) =>
               /\ call.delaySec = 3 * call.attempt
               /\ IF k = Len(calls)
                    THEN pc = "backoff"
                    ELSE calls[k + 1].idx = call.idx
          /\ (call.result = "failed" /\ call.attempt = 3) =>
               /\ k = Len(calls)
               /\ pc = "thrown"
          /\ call.result = "ok" =>
               /\ k < Len(calls) => calls[k + 1].idx = call.idx + 1
               /\ \E j \in 1..Len(chunkFiles) : chunkFiles[j] = call.idx
  /\ pc = "thrown" =>
       /\ calls # <<>>
       /\ calls[Len(calls)].attempt = 3
       /\ calls[Len(calls)].result = "failed"

\* A chunk synthesized at its third attempt, after two failures.
C4_Witness ==
  \E k \in 1..Len(calls) : calls[k].attempt = 3 /\ calls[k].result = "ok"

\* C5: a request rejected with a non-transient error is the only attempt for its
\* chunk and the last request of the call, which throws.
C5_FatalNotRetried ==
  error = "fatal" =>
    /\ calls[Len(calls)].attempt = 1
    /\ pc = "thrown"

\* Some chunk's synthesis failed for good: its last permitted attempt failed.
UltimatelyFailed ==
  \E k \in 1..Len(calls) :
    calls[k].attempt = MaxRetries + 1 /\ calls[k].result = "failed"

\* C6: once a chunk's synthesis has failed for good, convertToAudio has thrown,
\* no assembly has run, nothing is at the output path, and run() has failed without
\* entering buildUpdatedFeed or publishEpisode.
C6_NoAssemblyAfterFailure ==
  UltimatelyFailed =>
    /\ pc = "thrown"
    /\ assembled = "none"
    /\ ~outFile.exists
    /\ ~returned.set
    /\ stage = "failed"
    /\ reached = {}

\* The abort came mid-sequence: an earlier chunk's file had been written.
C6_Witness ==
  /\ UltimatelyFailed
  /\ chunkFiles # <<>>
  /\ pc = "thrown"

HasMarker(txt) == \E i \in 1..Len(txt) : txt[i] \in Markers

\* C7: a transcript with text and no marker is parsed into one turn holding the
\* whole text, and is synthesized: requests are made and the artifact is not empty.
C7_Fallback ==
  (pc = "returned" /\ ~HasMarker(script) /\ Trim(script) # <<>>) =>
    /\ Len(segments) = 1
    /\ segments[1].text = Trim(script)
    /\ calls # <<>>
    /\ outFile.data # <<>>

\* convertToAudio has parsed the transcript and has not been left by run().
InConvertToAudio == pc \in {"await", "backoff", "returned", "thrown"}

MarkerPositions == {i \in 1..Len(script) : script[i] \in Markers}

\* The last position of the span that follows the marker at position i.
SpanEnd(i) ==
  IF \E j \in MarkerPositions : j > i
    THEN (CHOOSE j \in MarkerPositions :
            j > i /\ \A m \in MarkerPositions : m > i => j <= m) - 1
    ELSE Len(script)

SpanOf(i) == Trim(SubSeq(script, i + 1, SpanEnd(i)))

SpokenMarkers == {i \in MarkerPositions : SpanOf(i) # <<>>}

\* C8: the turns are, in transcript order, one per marker whose span is not empty
\* after trimming, with that marker's speaker and the trimmed span; no turn has
\* empty text.
C8_TurnsPerMarker ==
  InConvertToAudio =>
    /\ Len(segments) = Cardinality(SpokenMarkers)
    /\ \A i \in SpokenMarkers :
         segments[Cardinality({j \in SpokenMarkers : j <= i})] =
           [speaker |-> IF script[i] = "[HOST]" THEN "HOST" ELSE "COHOST",
            text |-> SpanOf(i)]
    /\ \A k \in 1..Len(segments) : segments[k].text # <<>>

\* A transcript with text before its first marker, a marker with nothing to say,
\* and a turn.
C8_Witness ==
  /\ InConvertToAudio
  /\ script # <<>>
  /\ script[1] = "W"
  /\ Len(segments) >= 1
  /\ Cardinality(MarkerPositions) > Len(segments)

\* C9: when convertToAudio has returned or thrown, none of the chunk files it
\* wrote is still in the temporary directory.
C9_NoTempFilesRemain ==
  pc \in {"returned", "thrown"} =>
    \A k \in 1..Len(chunkFiles) : ~tmpFiles[chunkFiles[k]].exists

RECURSIVE SentBytes(_)
SentBytes(k) ==
  IF k = 0 THEN 0
  ELSE (IF calls[k].result = "ok" THEN ByteLength(calls[k].text) ELSE 0)
         + SentBytes(k - 1)

\* The summed sizes of the texts whose fragments make up the artifact.
RECURSIVE ArtifactTextBytes(_)
ArtifactTextBytes(k) ==
  IF k = 0 THEN 0
  ELSE ByteLength(outFile.data[k].text) + ArtifactTextBytes(k - 1)

\* C10: the characters convertToAudio returns, and run() hands to trackTTS and
\* updateTTSUsage, are the summed sizes of the chunk texts synthesized.
C10_CharactersAreSentBytes ==
  /\ pc = "returned" =>
       /\ returned.characters = SentBytes(Len(calls))
       /\ returned.characters = ArtifactTextBytes(Len(outFile.data))
  /\ "trackTTS" \in reached => trackedChars = ArtifactTextBytes(Len(outFile.data))
  /\ "updateTTSUsage" \in reached => usageChars = ArtifactTextBytes(Len(outFile.data))

\* C11: at most one synthesis request is in flight at any time: a pending request
\* is the last one issued and convertToAudio is awaiting it; a request for the
\* next chunk index follows a request that succeeded, a request for the same chunk
\* index is the retry that follows a failed request and its backoff; nothing else
\* is ever issued.
C11_OneInFlight ==
  InConvertToAudio =>
    /\ \A k \in 1..Len(calls) :
         calls[k].result = "pending" => k = Len(calls) /\ pc = "await"
    /\ pc = "await" => calls # <<>> /\ calls[Len(calls)].result = "pending"
    /\ \A k \in 2..Len(calls) :
         \/ /\ calls[k].idx = calls[k - 1].idx + 1
            /\ calls[k].attempt = 1
            /\ calls[k - 1].result = "ok"
         \/ /\ calls[k].idx = calls[k - 1].idx
            /\ calls[k].attempt = calls[k - 1].attempt + 1
            /\ calls[k - 1].result = "failed"
            /\ calls[k - 1].delaySec > 0

\* The second chunk of a two-chunk turn in flight, after a retry of the first.
C11_Witness ==
  /\ pc = "await"
  /\ Len(textChunks) = 2
  /\ c = 2
  /\ calls[Len(calls)].idx = 1
  /\ \E k \in 1..Len(calls) : calls[k].result = "failed"

\* The number of chunks of the turns before turn i.
RECURSIVE ChunksBefore(_, _)
ChunksBefore(segs, i) ==
  IF i <= 1 THEN 0
  ELSE Len(TextChunksOf(segs[i - 1].text)) + ChunksBefore(segs, i - 1)

\* The turn the chunk with chunk index idx came from.
TurnOf(segs, idx) ==
  CHOOSE i \in 1..Len(segs) :
    ChunksBefore(segs, i) <= idx /\ idx < ChunksBefore(segs, i + 1)

\* C12: every synthesis request, retries included, carries the voice of the
\* speaker of the turn its chunk came from (HOST: en-US-Studio-O, COHOST:
\* en-US-Studio-Q); requests for chunks of one turn carry one voice; no request
\* carries an undefined voice.
C12_VoiceOfSpeaker ==
  InConvertToAudio =>
    /\ \A k \in 1..Len(calls) :
         LET speaker == segments[TurnOf(segments, calls[k].idx)].speaker
         IN /\ speaker \in {"HOST", "COHOST"}
            /\ speaker = "HOST" => calls[k].voice = "en-US-Studio-O"
            /\ speaker = "COHOST" => calls[k].voice = "en-US-Studio-Q"
            /\ calls[k].voice # "undefined"
    /\ \A j, k \in 1..Len(calls) :
         TurnOf(segments, calls[j].idx) = TurnOf(segments, calls[k].idx)
           => calls[j].voice = calls[k].voice

\* A HOST turn and a COHOST turn both requested, one of the requests a retry.
C12_Witness ==
  /\ InConvertToAudio
  /\ \E j, k \in 1..Len(calls) :
       /\ calls[j].voice = "en-US-Studio-O"
       /\ calls[k].voice = "en-US-Studio-Q"
       /\ calls[k].attempt > 1

\* The successful requests made for chunks of turn i.
SuccessfulCallsOf(i) ==
  {k \in 1..Len(calls) :
     calls[k].result = "ok" /\ TurnOf(segments, calls[k].idx) = i}

\* C16: a turn of at most 4500 UTF-8 bytes is one chunk, the turn's text
\* unchanged: while it is being synthesized the chunk list is that one text, and
\* when convertToAudio returns exactly one successful request was made for it,
\* with the turn's full text.
C16_SmallTurnOneCall ==
  /\ pc \in {"await", "backoff", "thrown"} /\ ByteLength(segments[s].text) <= SegmentCeiling
       => textChunks = <<segments[s].text>>
  /\ pc = "returned" =>
       \A i \in 1..Len(segments) :
         ByteLength(segments[i].text) <= SegmentCeiling =>
           /\ Cardinality(SuccessfulCallsOf(i)) = 1
           /\ \A k \in SuccessfulCallsOf(i) : calls[k].text = segments[i].text

\* A returned run with a turn under the ceiling whose text a split into sentences
\* would not give back, synthesized on a retry.
C16_Witness ==
  /\ pc = "returned"
  /\ \E i \in 1..Len(segments) :
       /\ ByteLength(segments[i].text) <= SegmentCeiling
       /\ chunkScript(segments[i].text, SegmentCeiling) # <<segments[i].text>>
       /\ \E k \in SuccessfulCallsOf(i) : calls[k].attempt > 1

\* The units from position a to position b, joined as the loop joins them.
RECURSIVE ConcatUnits(_, _, _)
ConcatUnits(units, a, b) ==
  IF a > b THEN <<>> ELSE units[a] \o ConcatUnits(units, a + 1, b)

\* C15 as stated: a turn of exactly twice the ceiling, made of well-punctuated
\* sentences each shorter than the ceiling, gives exactly 2 chunks, each of at
\* most the ceiling.
C15_ExactlyTwoChunks ==
  chunks # NotApplied =>
    /\ Len(chunks) = 2
    /\ \A i \in 1..Len(chunks) : ByteLength(chunks[i]) <= maxBytes

\* C15 amended: such a turn gives at least 2 chunks, each of at most the ceiling,
\* and exactly 2 precisely when a sentence boundary falls on the midpoint.
C15_AtLeastTwoChunks ==
  chunks # NotApplied =>
    /\ Len(chunks) >= 2
    /\ \A i \in 1..Len(chunks) : ByteLength(chunks[i]) <= maxBytes
    /\ Len(chunks) = 2 <=>
         \E k \in 1..Len(UnitsOf(text)) :
           ByteLength(ConcatUnits(UnitsOf(text), 1, k)) = maxBytes

\* A turn of twice the ceiling that gives three chunks.
C15_Witness ==
  /\ chunks # NotApplied
  /\ ByteLength(text) = 2 * maxBytes
  /\ Len(chunks) = 3

\* The units that alone are longer than the ceiling.
OversizedUnits == {k \in 1..Len(UnitsOf(text)) : ByteLength(UnitsOf(text)[k]) > maxBytes}

\* The i-th smallest of the unit positions at which groups end.
NthEnd(ends, i) == CHOOSE x \in ends : Cardinality({y \in ends : y <= x}) = i

\* C17: chunkScript returns for every text and every ceiling, with at most one
\* chunk per sentence unit; when a unit alone is longer than the ceiling the
\* chunks are the units in order, grouped, each group trimmed, and every such
\* unit is a group of its own; a text longer than the ceiling that holds no
\* terminal punctuation gives one chunk, the whole text trimmed.
C17_OversizedUnitAlone ==
  /\ chunks = NotApplied => chunkScript(text, maxBytes) \in Seq(Seq(TextAlphabet))
  /\ chunks # NotApplied =>
       LET units == UnitsOf(text)
           n == Len(units)
           m == Len(chunks)
       IN /\ m <= n
          /\ OversizedUnits # {} =>
               \E cuts \in SUBSET (1..(n - 1)) :
                 LET ends == cuts \cup {n}
                 IN /\ Cardinality(ends) = m
                    /\ \A i \in 1..m :
                         chunks[i] =
                           Trim(ConcatUnits(units,
                                            IF i = 1 THEN 1 ELSE NthEnd(ends, i - 1) + 1,
                                            NthEnd(ends, i)))
                    /\ \A k \in OversizedUnits : k \in ends /\ (k = 1 \/ k - 1 \in ends)
          /\ (\A j \in 1..Len(text) : ~IsPunct(text[j])) /\ ByteLength(text) > maxBytes
               => chunks = <<Trim(text)>>

\* A unit longer than the ceiling that follows a unit under it, both emitted.
C17_Witness ==
  /\ chunks # NotApplied
  /\ Len(chunks) >= 2
  /\ \E k \in OversizedUnits :
       /\ k >= 2
       /\ ByteLength(UnitsOf(text)[k - 1]) <= maxBytes
       /\ ByteLength(Trim(UnitsOf(text)[k])) > maxBytes

\* What holds of the calls of run() at every moment.
RetrySafe ==
  /\ Len(runLog) <= MaxRunRetries + 1
  /\ \A n \in 1..Len(runLog) : runLog[n].attempt = n
  /\ \A n \in 2..Len(runLog) :
       /\ runLog[n - 1].outcome \in RunFailures
       /\ runLog[n - 1].delaySec = (n - 1) * 5
       /\ runLog[n - 1].waited >= runLog[n - 1].delaySec
  /\ \A n \in 1..Len(runLog) :
       runLog[n].outcome = "ok" => n = Len(runLog) /\ runPc = "returned"
  /\ runPc = "returned" => runLog[Len(runLog)].outcome = "ok" /\ exitStatus = -1
  /\ runPc = "exited" <=> exitStatus = 1
  /\ runPc = "exited" <=>
       /\ Len(runLog) = 3
       /\ \A n \in 1..Len(runLog) : runLog[n].outcome \in RunFailures

\* C14: run() is called at most 3 times; call n + 1 is made only after call n
\* failed and n * 5 seconds passed; the first call that succeeds is the last;
\* the process exits with status 1 exactly after the third failure; and the loop
\* ends, each call of run() settling.
C14_AtMostThreeRuns ==
  /\ [](runPc # "idle" => RetrySafe)
  /\ <>(runPc \in {"returned", "exited"})

\* Two failed calls, both backoffs waited out, and a third call that succeeded.
C14_Witness ==
  /\ runPc = "returned"
  /\ Len(runLog) = 3
  /\ runLog[1].waited = 5
  /\ runLog[2].waited = 10

\* The error synthesizeSpeech rejects with: what the client says (the kind of the
\* failure); the client is given a text and a voice, never a stage or an index.
ClientError(kind) == [message |-> kind]

\* The error that leaves run(): synthesizeChunkWithRetry rethrows the error it
\* caught, convertToAudio logs its message and rethrows it, run() logs it and
\* rethrows it.
SurfacedError == ClientError(error)

\* C18: when the synthesis of a chunk fails for good, the error that leaves
\* convertToAudio and run() names the stage that failed ("synthesize") and the
\* index of the chunk.
C18_ErrorNamesStageAndChunk ==
  pc = "thrown" =>
    /\ "stage" \in DOMAIN SurfacedError
    /\ SurfacedError.stage = "synthesize"
    /\ "chunkIndex" \in DOMAIN SurfacedError
    /\ SurfacedError.chunkIndex = chunkIndex

\* The position in the memory before the last call of the record that now stands
\* at position j (0 when it was not there).
PositionBefore(j) ==
  IF \E i \in 1..Len(memoryBefore.episodes) :
       memoryBefore.episodes[i] = memory.episodes[j]
    THEN CHOOSE i \in 1..Len(memoryBefore.episodes) :
           memoryBefore.episodes[i] = memory.episodes[j]
    ELSE 0

\* C20: the memory never holds more than 14 records nor two records of one date;
\* after a call the record added is first, the records behind it were all there
\* before and stand in the order they stood in, and a record of another date is
\* missing only when the memory is full and every record that stood behind it is
\* missing too.
C20_MemoryBounded ==
  LET new == memory.episodes
      old == memoryBefore.episodes
      kept == {PositionBefore(j) : j \in 2..Len(new)}
  IN /\ Len(new) <= 14
     /\ \A i, j \in 1..Len(new) : new[i].date = new[j].date => i = j
     /\ adds > 0 =>
          /\ new # <<>>
          /\ new[1] = lastRecord
          /\ 0 \notin kept
          /\ \A i, j \in 2..Len(new) : i < j => PositionBefore(i) < PositionBefore(j)
          /\ \A i \in 1..Len(old) :
               old[i].date # lastRecord.date /\ i \notin kept =>
                 /\ Len(new) = 14
                 /\ \A k \in (i + 1)..Len(old) : k \notin kept

\* A full memory after two calls: the first replaced the record of its date, the
\* second pushed the last record out.
C20_Witness ==
  /\ adds = 2
  /\ Len(memoryBefore.episodes) = 14
  /\ Len(memory.episodes) = 14
  /\ memoryBefore.episodes[1].date <= 14
  /\ \A j \in 1..Len(memory.episodes) :
       memory.episodes[j] # memoryBefore.episodes[14]

\* The position of a source among the sources.
SourceIndex(source) == CHOOSE k \in 1..Len(AllSources) : AllSources[k] = source

\* The list of the bundle a source's items go to.
BundleListOf(source) ==
  IF SourceIndex(source) <= Len(DatabricksSources) THEN bundle.databricks ELSE bundle.aiNews

InList(item, list) == \E k \in 1..Len(list) : list[k] = item

SumOfServices ==
  FAdd(FAdd(tracker.costs.claude, tracker.costs.tts), tracker.costs.twitter)

\* The usage fields each service owns.
UsageFieldsOf(service) ==
  CASE service = "claude" -> {"claudeInputTokens", "claudeOutputTokens"}
    [] service = "tts" -> {"ttsCharacters"}
    [] service = "twitter" -> {"twitterCalls"}
    [] OTHER -> {}

\* Each per-service cost is the sum, in call order, of the costs its calls
\* returned; each usage counter is the sum of its arguments; the last call left
\* the fields of the other services as they were.
CostsAccumulate ==
  /\ \A service \in {"claude", "tts", "twitter"} :
       /\ tracker.costs[service] = ledger.returned[service]
       /\ service # lastReturn.service =>
            /\ tracker.costs[service] = trackerBefore.costs[service]
            /\ \A field \in UsageFieldsOf(service) :
                 tracker.usage[field] = trackerBefore.usage[field]
  /\ tracker.usage = ledger.args

\* C19 as stated: after any sequence of trackClaude, trackTTS and trackTwitter
\* calls on one tracker, costs.total equals costs.claude + costs.tts +
\* costs.twitter exactly, each per-service cost is the sum of the costs its calls
\* returned, each usage counter is the sum of its arguments, and a call leaves
\* the other services' fields unchanged.
C19_TotalEqualsSum ==
  /\ tracker.costs.total = SumOfServices
  /\ CostsAccumulate

\* C19 amended: costs.total equals costs.claude + costs.tts + costs.twitter up to
\* the rounding of the additions (after n calls they differ by at most n * 2^-51
\* of the total); the rest as stated, the per-service sums taken in call order.
C19_TotalCloseToSum ==
  /\ CloseTo(tracker.costs.total, SumOfServices, ledger.calls)
  /\ CostsAccumulate

\* C19's case: three calls made, Claude and TTS both charged, and the total and
\* the sum of the services have parted.
C19_Witness ==
  /\ ledger.calls = 3
  /\ tracker.usage.claudeInputTokens > 0
  /\ tracker.usage.ttsCharacters > 0
  /\ tracker.costs.total # SumOfServices

\* What holds after a call of addEpisodeToMemory: adding the same record again
\* changes nothing, and a record whose date was there has taken the place of the
\* old record of that date.
UpsertDone ==
  LET new == memory.episodes
      old == memoryBefore.episodes
  IN /\ addEpisodeToMemory(memory, lastRecord) = memory
     /\ Cardinality({j \in 1..Len(new) : new[j].date = lastRecord.date}) = 1
     /\ \A i \in 1..Len(old) :
          old[i].date = lastRecord.date =>
            /\ Len(new) = Len(old)
            /\ \A j \in 1..Len(new) : new[j] # old[i]

\* C21: addEpisodeToMemory is an idempotent upsert keyed by date: after every
\* call, adding the same record once more gives the same memory, a record whose
\* date was present has replaced the old one and the memory has not grown; the
\* memory handed to the call is afterwards what it was before.
C21_IdempotentUpsert ==
  /\ [](adds > 0 => UpsertDone)
  /\ [][memoryBefore' = memory]_vars

\* The same date added twice in a row to a memory that held it.
C21_Witness ==
  /\ adds = 2
  /\ memoryBefore.episodes[1].date = lastRecord.date
  /\ Len(memoryBefore.episodes) = MAX_EPISODES

\* buildUpdatedFeed was called on a feed that is not empty and holds the tag.
BuiltOnTaggedFeed ==
  /\ updatedFeed # NotBuilt
  /\ existingFeedXml # NullFeed
  /\ Trim(existingFeedXml) # <<>>
  /\ IndexOf(existingFeedXml, ExplicitClose, 1) > 0

\* The number of items of a feed, and of its items for one episode file.
CountItems(feed) == Cardinality({i \in 1..Len(feed) : feed[i] = "<item>"})

CountGuid(feed, fileName) == Cardinality({i \in 1..Len(feed) : feed[i] = fileName})

\* The result is the existing feed with the new item right after the first
\* explicit tag: taking the item out gives the existing feed back.
InsertedAfterFirstTag ==
  LET p == IndexOf(existingFeedXml, ExplicitClose, 1)
      item == NewItem(episode)
      out == updatedFeed.feed
  IN /\ ~updatedFeed.threw
     /\ Len(out) = Len(existingFeedXml) + Len(item)
     /\ SubSeq(out, p + 1, p + Len(item)) = item
     /\ SubSeq(out, 1, p) \o SubSeq(out, p + Len(item) + 1, Len(out)) = existingFeedXml

C23_FirstRunOrThrow ==
  updatedFeed # NotBuilt =>
    /\ existingFeedXml = NullFeed \/ Trim(existingFeedXml) = <<>> =>
         /\ ~updatedFeed.threw
         /\ IndexOf(updatedFeed.feed, ExplicitClose, 1) > 0
         /\ CountItems(updatedFeed.feed) = 1
         /\ \E k \in 1..Len(updatedFeed.feed) :
              SubSeq(updatedFeed.feed, k, k + Len(NewItem(episode)) - 1) = NewItem(episode)
    /\ /\ existingFeedXml # NullFeed
       /\ Trim(existingFeedXml) # <<>>
       /\ IndexOf(existingFeedXml, ExplicitClose, 1) = 0
       => /\ updatedFeed.threw
          /\ updatedFeed.message = "Invalid feed XML: missing </itunes:explicit> tag"
          /\ updatedFeed.feed = <<>>

\* A feed with an item but without the tag was refused.
C23_Witness ==
  /\ updatedFeed.threw
  /\ CountItems(existingFeedXml) >= 1

\* C30: every call on a feed that is not empty and holds the explicit tag gives a
\* feed with exactly one item more, and with one more item of the episode's file
\* whether or not the feed had one.
C30_OneMoreItem ==
  BuiltOnTaggedFeed =>
    /\ ~updatedFeed.threw
    /\ CountItems(updatedFeed.feed) = CountItems(existingFeedXml) + 1
    /\ CountGuid(updatedFeed.feed, episode.fileName)
         = CountGuid(existingFeedXml, episode.fileName) + 1

\* The same episode file published twice: two items of one guid.
C30_Witness ==
  /\ BuiltOnTaggedFeed
  /\ builds = 1
  /\ CountGuid(existingFeedXml, episode.fileName) = 1
  /\ CountGuid(updatedFeed.feed, episode.fileName) = 2

RECURSIVE SplitLines(_, _, _)
\* result.split('\n') from token i on, cur the line begun.
SplitLines(str, i, cur) ==
  IF i > Len(str) THEN <<cur>>
  ELSE IF str[i] = "\n" THEN <<cur>> \o SplitLines(str, i + 1, <<>>)
  ELSE SplitLines(str, i + 1, Append(cur, str[i]))

\* The stored episodes whose date is the day that lies `days` days before the
\* day of the call, or a later day, in stored order.
OnOrAfterCutoffDay ==
  SelectSeq(EpisodesOf(promptMemory),
            LAMBDA ep : ep.date >= LocalDay(now, zone) - days)

\* C24: formatMemoryForPrompt returns one line for each stored episode whose
\* date is on or after the day that lies `days` days before today, in stored
\* order, and the empty string when there is no such episode.
C24_OneLinePerRecentEpisode ==
  prompt # NotFormatted =>
    IF Len(OnOrAfterCutoffDay) = 0 THEN prompt = <<>>
    ELSE SplitLines(prompt, 1, <<>>)
           = [i \in 1..Len(OnOrAfterCutoffDay) |-> PromptLine(OnOrAfterCutoffDay[i])]

\* The commits of feed.xml a run has made.
FeedCommits(r) ==
  Cardinality({i \in 1..Len(proc[r].commits) : proc[r].commits[i] = "feed"})

\* Where a run stands once publishEpisode has resolved.
Published == {"log", "updateTTSUsage", "returned"}

\* C25: within one invocation of runWithRetry feed.xml is committed at most once,
\* and once publishEpisode has resolved the attempt does not fail and no other
\* attempt is started, whatever cost logging and usage tracking meet.
C25_PublishAtMostOnce ==
  /\ [](\A r \in DOMAIN proc : FeedCommits(r) <= 1)
  /\ [][\A r \in DOMAIN proc :
          proc[r].pc \in Published =>
            /\ proc'[r].pc \in Published
            /\ proc'[r].attempt = proc[r].attempt
            /\ proc'[r].commits = proc[r].commits]_vars

\* A run has returned from its first attempt although both its cost logging and
\* its usage tracking failed (the other run has not begun).
C25_Witness ==
  \E r \in DOMAIN proc : \E o \in DOMAIN proc :
    /\ o # r
    /\ proc[r].pc = "returned"
    /\ proc[r].attempt = 1
    /\ FeedCommits(r) = 1
    /\ faults = 2
    /\ proc[o].pc = "getCurrentFeed"
    /\ proc[o].attempt = 1

\* C26: a run commits feed.xml, and asks to, only when the commit before it in
\* the same attempt was that of the MP3; no episode file has an item in the
\* published feed without being on the branch.
C26_FeedAfterMp3 ==
  \A r \in DOMAIN proc :
    LET log == proc[r].commits
    IN /\ \A i \in 1..Len(log) : log[i] = "feed" => i > 1 /\ log[i - 1] = "mp3"
       /\ (proc[r].pc \in {"sha", "put"} /\ PublishOrder[proc[r].file] = "feed")
            => Len(log) > 0 /\ log[Len(log)] = "mp3"
       /\ \A f \in FileNames :
            CountGuid(repo.feed.content, f) > 0 => repo.mp3[f].exists

\* An attempt that had built its feed failed at the MP3 (its read, its sha or its
\* PUT) and the feed of the branch is as it was.
C26_Witness ==
  \E r \in DOMAIN proc :
    /\ proc[r].pc = "failed"
    /\ proc[r].attempt = 1
    /\ proc[r].builtFrom # 0
    /\ proc[r].commits = <<>>
    /\ repo.feed.content = feed0

\* C27: the feed a run builds on is '' only when its read of feed.xml answered
\* 404; after any other failed read the attempt is over before buildUpdatedFeed
\* and publishEpisode, and a feed of the new item alone is built only on a 404.
C27_EmptyOnlyOn404 ==
  \A r \in DOMAIN proc :
    /\ proc[r].status \notin {Ok, NotFound}
         => proc[r].pc \in {"getCurrentFeed", "failed", "exited"}
    /\ (proc[r].pc = "buildUpdatedFeed" /\ proc[r].existingFeed = <<>>)
         => proc[r].status = NotFound
    /\ CountItems(proc[r].updatedFeed) = 1 => proc[r].builtFrom = NotFound

\* The read of an existing feed failed with a server error and the attempt is
\* over, the feed untouched.
C27_Witness ==
  \E r \in DOMAIN proc :
    /\ proc[r].status = ServerError
    /\ proc[r].pc = "failed"
    /\ proc[r].commits = <<>>
    /\ repo.feed.exists
    /\ repo.feed.content = feed0

RECURSIVE SumOver(_, _)
\* The sum of the feed commits of a set of runs.
SumOver(rs, n) ==
  IF rs = {} THEN n
  ELSE LET r == CHOOSE x \in rs : TRUE IN SumOver(rs \ {r}, n + FeedCommits(r))

\* C29: no update of the feed is lost when runs overlap: the published feed holds
\* the items it had before and one item for each commit of feed.xml made.
C29_NoLostUpdate ==
  CountItems(repo.feed.content) = CountItems(feed0) + SumOver(DOMAIN proc, 0)

\* The audio of the requests of this attempt that resolved, in request order.
RECURSIVE SynthesizedFrom(_)
SynthesizedFrom(i) ==
  IF i > Len(calls) THEN <<>>
  ELSE (IF calls[i].result = "ok" THEN <<Fragment(calls[i].voice, calls[i].text)>>
        ELSE <<>>) \o SynthesizedFrom(i + 1)

\* C28: with chunk files of an earlier failed attempt in the temporary
\* directory, every file on the list of this attempt holds what this attempt
\* wrote, the artifact of the attempt is the audio this attempt synthesized and
\* nothing else, and the attempt returns although files of the earlier attempt
\* keep the directory from being removed.
C28_NoStaleAudio ==
  /\ pc # "returned" =>
       \A k \in 1..Len(chunkFiles) :
         /\ tmpFiles[chunkFiles[k]].exists
         /\ \A j \in 1..Len(tmpFiles[chunkFiles[k]].data) :
              tmpFiles[chunkFiles[k]].data[j] # StaleFragment
  /\ pc = "returned" =>
       /\ returned.set
       /\ outFile.exists
       /\ outFile.data = SynthesizedFrom(1)
       /\ \A j \in 1..Len(outFile.data) : outFile.data[j] # StaleFragment
       /\ tmpDirExists = (\E i \in FileIndices : tmpFiles[i] = File(<<StaleFragment>>))

\* An attempt has combined two chunks it wrote over files of the earlier attempt
\* and returned, a third file of the earlier attempt still in the directory.
C28_Witness ==
  /\ pc = "returned"
  /\ assembled = "combine"
  /\ Len(outFile.data) = 2
  /\ tmpDirExists
  /\ tmpFiles[2] = File(<<StaleFragment>>)

====
